---- MODULE Spec2Model ----
(***************************************************************************)
(* Model of the Todo REST backend (backend/internal): the JWT             *)
(* authentication middleware, the auth service (register, login, token    *)
(* issue and validation) and the ownership-scoped Todo service with its   *)
(* repositories.  The two tables (users, todos) are the only shared       *)
(* state; every request runs on its own worker and touches the store one  *)
(* statement at a time, so a handler that issues two statements is two    *)
(* steps of the worker that serves it.                                     *)
(***************************************************************************)
EXTENDS Integers, Sequences, FiniteSets, TLC

VARIABLES
    users,   \* the users table: a sequence of rows, row i has id i
    todos,   \* the todos table: a sequence of rows, row i has id i
    now,     \* the wall clock, in hours
    req,     \* req[w]: the request worker w is serving (pc = "idle" when none)
    resp,    \* the response written by the step just taken (NoResp when none)
    world    \* the surroundings of the server: the inputs the clients of this
             \* run send, fixed at Init, and whether the database is down

vars == <<users, todos, now, req, resp, world>>

(* The database does not answer: every statement sent to it fails. *)
StoreDown == world.down

----------------------------------------------------------------------------
(* Bounds of the model. *)

MaxUsers == 2        \* rows the users table may hold
MaxTodos == 2        \* rows the todos table may hold
MaxTime == 3         \* the clock stops here
MaxWorkers == 2      \* requests served at once
IntBits == 8         \* bits of Go's int as modelled (64 in the build)

(* Program constants. *)

ExpirationHours == 2     \* config.JWT.ExpirationHours as deployed (JWT_EXPIRATION_HOURS)
TitleMax == 200          \* validate:"max=200"
DescriptionMax == 1000   \* validate:"max=1000"
NameMax == 100           \* validate:"max=100"
PasswordMin == 8         \* validate:"min=8"
LimitMax == 100          \* validate:"max=100" and the service's clamp
DefaultLimit == 10       \* the service's default limit

StatusOK == 200
StatusCreated == 201
StatusNoContent == 204
StatusBadRequest == 400
StatusUnauthorized == 401
StatusNotFound == 404
StatusInternalServerError == 500

JWTSecret == "your-secret-key"

----------------------------------------------------------------------------
(* Text is a tuple of one-character strings, so that lengths and substring  *)
(* search are computed and not assumed.                                     *)

Rep(c, n) == [i \in 1..n |-> c]

Lower(c) ==
    CASE c = "A" -> "a"
      [] c = "B" -> "b"
      [] c = "M" -> "m"
      [] OTHER -> c

ToLower(s) == [i \in 1..Len(s) |-> Lower(s[i])]

(* An optional value (a Go pointer): <<>> is nil, <<v>> points to v. *)
Nil == <<>>
Ptr(v) == <<v>>
IsNil(p) == p = <<>>
Deref(p) == p[1]

Min(a, b) == IF a < b THEN a ELSE b
Max(a, b) == IF a > b THEN a ELSE b

----------------------------------------------------------------------------
(* model: Priority, Status and the validator tags of the request structs.   *)

PriorityLow == "low"
PriorityMedium == "medium"
PriorityHigh == "high"
Priorities == {PriorityLow, PriorityMedium, PriorityHigh}

StatusPending == "pending"
StatusCompleted == "completed"
Statuses == {StatusPending, StatusCompleted}

(* validate:"email": one "@", with text on both sides of it. *)
IsEmail(s) ==
    /\ Cardinality({i \in 1..Len(s) : s[i] = "@"}) = 1
    /\ s[1] # "@"
    /\ s[Len(s)] # "@"

(* UserRequest: name required,min=1,max=100; email required,email;          *)
(* password required,min=8.                                                 *)
ValidUserRequest(r) ==
    /\ Len(r.name) >= 1 /\ Len(r.name) <= NameMax
    /\ Len(r.email) >= 1 /\ IsEmail(r.email)
    /\ Len(r.password) >= PasswordMin

(* LoginRequest: email required,email; password required. *)
ValidLoginRequest(r) ==
    /\ Len(r.email) >= 1 /\ IsEmail(r.email)
    /\ Len(r.password) >= 1

(* CreateTodoRequest validated with omitempty on the priority. *)
ValidCreateTodoRequestAnyPriority(r) ==
    /\ Len(r.title) >= 1 /\ Len(r.title) <= TitleMax
    /\ Len(r.description) <= DescriptionMax
    /\ r.priority = "" \/ r.priority \in Priorities

(* CreateTodoRequest validated without the rules on the title. *)
ValidCreateTodoRequestAnyTitle(r) ==
    /\ Len(r.description) <= DescriptionMax
    /\ r.priority \in Priorities

(* CreateTodoRequest: title required,min=1,max=200; description max=1000;   *)
(* priority oneof=low medium high (no omitempty); due_date unchecked.       *)
ValidCreateTodoRequest(r) ==
    /\ Len(r.title) >= 1 /\ Len(r.title) <= TitleMax
    /\ Len(r.description) <= DescriptionMax
    /\ r.priority \in Priorities

(* UpdateTodoRequest validated without the rule on status. *)
ValidUpdateTodoRequestAnyStatus(r) ==
    /\ IsNil(r.title) \/ (Len(Deref(r.title)) >= 1 /\ Len(Deref(r.title)) <= TitleMax)
    /\ IsNil(r.description) \/ Len(Deref(r.description)) <= DescriptionMax
    /\ IsNil(r.priority) \/ Deref(r.priority) \in Priorities

(* UpdateTodoRequest: every field is a pointer tagged omitempty: nil is     *)
(* skipped, a non-nil pointer is checked even when it points to "".         *)
ValidUpdateTodoRequest(r) ==
    /\ IsNil(r.title) \/ (Len(Deref(r.title)) >= 1 /\ Len(Deref(r.title)) <= TitleMax)
    /\ IsNil(r.description) \/ Len(Deref(r.description)) <= DescriptionMax
    /\ IsNil(r.priority) \/ Deref(r.priority) \in Priorities
    /\ IsNil(r.status) \/ Deref(r.status) \in Statuses

(* TodoListRequest validated without the rules on page and limit. *)
ValidTodoListRequestAnyPage(r) ==
    /\ IsNil(r.status) \/ Deref(r.status) \in Statuses
    /\ IsNil(r.priority) \/ Deref(r.priority) \in Priorities
    /\ Len(r.search) <= TitleMax

(* TodoListRequest: page min=1; limit min=1,max=100; status and priority    *)
(* omitempty,oneof; search max=200.  An absent page or limit binds to 0.    *)
ValidTodoListRequest(r) ==
    /\ r.page >= 1
    /\ r.limit >= 1 /\ r.limit <= LimitMax
    /\ IsNil(r.status) \/ Deref(r.status) \in Statuses
    /\ IsNil(r.priority) \/ Deref(r.priority) \in Priorities
    /\ Len(r.search) <= TitleMax

----------------------------------------------------------------------------
(* bcrypt: a salted one-way hash.  The digest is a tag of the plaintext     *)
(* that only CompareHashAndPassword inspects.                               *)

GenerateFromPassword(pw, salt) == [salt |-> salt, digest |-> pw]
CompareHashAndPassword(hash, pw) == hash.digest = pw

----------------------------------------------------------------------------
(* JWT.  A token is its header's algorithm, its claims and the key that     *)
(* signed it ("" when unsigned).                                            *)

HMACMethods == {"HS256", "HS384", "HS512"}

(* A token whose exp is the moment it is issued. *)
GenerateTokenExpiringAtOnce(userID, t) ==
    [alg |-> "HS256", user_id |-> Ptr(userID), exp |-> Ptr(t),
     iat |-> t, key |-> JWTSecret]

(* service: authService.GenerateToken *)
GenerateToken(userID, t) ==
    [alg |-> "HS256", user_id |-> Ptr(userID), exp |-> Ptr(t + ExpirationHours),
     iat |-> t, key |-> JWTSecret]

(* Validation that still accepts a token at the instant of its exp. *)
ValidateTokenThroughExpiry(tok, t) ==
    /\ tok.alg \in HMACMethods
    /\ tok.key = JWTSecret
    /\ IsNil(tok.exp) \/ t <= Deref(tok.exp)

(* jwt.Parse with a key function that returns the secret for every method. *)
ValidateTokenAnyMethod(tok, t) ==
    /\ tok.alg # "none"
    /\ tok.key = JWTSecret
    /\ IsNil(tok.exp) \/ t < Deref(tok.exp)

(* jwt.Parse with the service's key function: the method must be an HMAC    *)
(* one, the signature must verify under the secret, and exp, when present,  *)
(* must lie after the current time.                                         *)
ValidateToken(tok, t) ==
    /\ tok.alg \in HMACMethods
    /\ tok.key = JWTSecret
    /\ IsNil(tok.exp) \/ t < Deref(tok.exp)

----------------------------------------------------------------------------
(* model: User and Todo rows and their outward views.                       *)

(* The view of a User whose Password field is serialised like the others. *)
UserToResponseWithPassword(u) ==
    [id |-> u.id, name |-> u.name, email |-> u.email, password |-> u.password,
     created_at |-> u.createdAt, updated_at |-> u.updatedAt]

(* model: User.ToResponse *)
UserToResponse(u) ==
    [id |-> u.id, name |-> u.name, email |-> u.email,
     created_at |-> u.createdAt, updated_at |-> u.updatedAt]

TodoToResponse(t) ==
    [id |-> t.id, title |-> t.title, description |-> t.description,
     priority |-> t.priority, status |-> t.status, user_id |-> t.userID,
     due_date |-> t.dueDate, created_at |-> t.createdAt, updated_at |-> t.updatedAt]

IsCompleted(t) == t.status = StatusCompleted
MarkAsCompleted(t) == [t EXCEPT !.status = StatusCompleted]
MarkAsPending(t) == [t EXCEPT !.status = StatusPending]

----------------------------------------------------------------------------
(* The store.  A row's id is its position; a uuid column refuses any text   *)
(* that is no uuid (MalformedID) with an error of the database.  Queries    *)
(* on a model with a DeletedAt column see only rows whose deleted_at is     *)
(* NULL.                                                                    *)

MalformedID == 0

ErrNone == ""
ErrRecordNotFound == "record not found"
ErrDatabase == "database error"

Found(row) == [err |-> ErrNone, row |-> Ptr(row)]
Failed(e) == [err |-> e, row |-> Nil]

Live(row) == IsNil(row.deletedAt)

(* GetByID over every row, as db.Unscoped() would read. *)
UserRepoGetByIDUnscoped(tbl, id) ==
    IF id = MalformedID THEN Failed(ErrDatabase)
    ELSE IF id \in 1..Len(tbl) THEN Found(tbl[id])
    ELSE Failed(ErrRecordNotFound)

(* repository: userRepository.GetByID *)
UserRepoGetByID(tbl, id) ==
    IF StoreDown \/ id = MalformedID THEN Failed(ErrDatabase)
    ELSE IF id \in 1..Len(tbl) /\ Live(tbl[id]) THEN Found(tbl[id])
    ELSE Failed(ErrRecordNotFound)

(* GetByEmail whose query matches no row. *)
UserRepoGetByEmailNoRows(tbl, email) == Failed(ErrRecordNotFound)

(* repository: userRepository.GetByEmail *)
UserRepoGetByEmail(tbl, email) ==
    LET hits == {i \in 1..Len(tbl) : tbl[i].email = email /\ Live(tbl[i])}
    IN  IF StoreDown THEN Failed(ErrDatabase)
        ELSE IF hits = {} THEN Failed(ErrRecordNotFound)
        ELSE Found(tbl[CHOOSE i \in hits : \A j \in hits : i <= j])

(* The users table without the index on email. *)
NoUniqueIndex(tbl, email) == FALSE

(* The uniqueIndex on users.email covers every row, soft-deleted or not. *)
UserEmailTaken(tbl, email) == \E i \in 1..Len(tbl) : tbl[i].email = email

(* repository: userRepository.Create: the row the insert adds (the database *)
(* fills in the id and the timestamps).                                     *)
UserRepoCreate(tbl, user, t) ==
    Append(tbl, [id |-> Len(tbl) + 1, name |-> user.name, email |-> user.email,
                 password |-> user.password, createdAt |-> t, updatedAt |-> t,
                 deletedAt |-> Nil])

(* repository: userRepository.Delete (soft delete) *)
UserRepoDelete(tbl, id, t) ==
    [i \in 1..Len(tbl) |->
        IF i = id /\ Live(tbl[i]) THEN [tbl[i] EXCEPT !.deletedAt = Ptr(t)] ELSE tbl[i]]

(* GetUserTodoByID reading soft-deleted rows too, as db.Unscoped() would. *)
GetUserTodoByIDUnscoped(tbl, userID, todoID) ==
    IF todoID = MalformedID THEN Failed(ErrDatabase)
    ELSE IF todoID \in 1..Len(tbl) /\ tbl[todoID].userID = userID THEN Found(tbl[todoID])
    ELSE Failed(ErrRecordNotFound)

(* GetUserTodoByID without the user_id condition: todoRepository.GetByID. *)
GetTodoByIDAnyOwner(tbl, userID, todoID) ==
    IF todoID = MalformedID THEN Failed(ErrDatabase)
    ELSE IF todoID \in 1..Len(tbl) /\ Live(tbl[todoID]) THEN Found(tbl[todoID])
    ELSE Failed(ErrRecordNotFound)

(* repository: todoRepository.GetUserTodoByID *)
GetUserTodoByID(tbl, userID, todoID) ==
    IF StoreDown \/ todoID = MalformedID THEN Failed(ErrDatabase)
    ELSE IF /\ todoID \in 1..Len(tbl)
            /\ tbl[todoID].userID = userID
            /\ Live(tbl[todoID])
         THEN Found(tbl[todoID])
    ELSE Failed(ErrRecordNotFound)

(* A due date is an instant counted in nanoseconds, the resolution of       *)
(* time.Time; the due_date column is a PostgreSQL timestamptz, which keeps  *)
(* microseconds: what is written is cut to the microsecond below.           *)
MicroNanos == 1000

Timestamptz(p) ==
    IF IsNil(p) THEN Nil ELSE Ptr((Deref(p) \div MicroNanos) * MicroNanos)

(* Todo.Priority, gorm:"default:'medium'": an insert of the zero value      *)
(* leaves the column to its default, which gorm reads back into the struct. *)
PriorityColumn(p) == IF p = "" THEN PriorityMedium ELSE p

(* repository: todoRepository.Create, the table after the insert *)
TodoRepoCreate(tbl, todo, t) ==
    Append(tbl, [id |-> Len(tbl) + 1, title |-> todo.title,
                 description |-> todo.description,
                 priority |-> PriorityColumn(todo.priority),
                 status |-> todo.status, userID |-> todo.userID,
                 dueDate |-> Timestamptz(todo.dueDate), createdAt |-> t,
                 updatedAt |-> t, deletedAt |-> Nil])

(* repository: todoRepository.Create, the struct after the insert: gorm     *)
(* fills in the id and the timestamps and leaves the other fields as the    *)
(* service set them.                                                        *)
TodoAfterCreate(tbl, todo, t) ==
    [id |-> Len(tbl) + 1, title |-> todo.title,
     description |-> todo.description, priority |-> PriorityColumn(todo.priority),
     status |-> todo.status, userID |-> todo.userID,
     dueDate |-> todo.dueDate, createdAt |-> t, updatedAt |-> t,
     deletedAt |-> Nil]

(* repository: todoRepository.Update, gorm's Save of a row read earlier:    *)
(* UPDATE ... WHERE id = ? AND deleted_at IS NULL with every column of the  *)
(* struct; when that matches no row, Save falls back to INSERT ... ON       *)
(* CONFLICT (id) DO UPDATE, which writes every column but created_at,       *)
(* deleted_at included.                                                     *)
TodoRepoUpdate(tbl, todo, t) ==
    [i \in 1..Len(tbl) |->
        IF i # todo.id THEN tbl[i]
        ELSE IF Live(tbl[i])
             THEN [todo EXCEPT !.updatedAt = t, !.deletedAt = tbl[i].deletedAt,
                               !.dueDate = Timestamptz(@)]
             ELSE [todo EXCEPT !.updatedAt = t, !.createdAt = tbl[i].createdAt,
                               !.dueDate = Timestamptz(@)]]

(* repository: todoRepository.Delete (soft delete, by id alone) *)
TodoRepoDelete(tbl, id, t) ==
    [i \in 1..Len(tbl) |->
        IF i = id /\ Live(tbl[i]) THEN [tbl[i] EXCEPT !.deletedAt = Ptr(t)] ELSE tbl[i]]

(* ILIKE: "%" matches any run of characters, "_" any one character, a       *)
(* backslash makes the character after it match itself, and any other       *)
(* character matches itself, ignoring case.                                 *)
RECURSIVE ILike(_, _)
ILike(s, pat) ==
    IF pat = <<>> THEN s = <<>>
    ELSE IF Head(pat) = "%"
         THEN ILike(s, Tail(pat)) \/ (s # <<>> /\ ILike(Tail(s), pat))
    ELSE IF Head(pat) = "\\" /\ Tail(pat) # <<>>
         THEN /\ s # <<>>
              /\ Lower(Head(Tail(pat))) = Lower(Head(s))
              /\ ILike(Tail(s), Tail(Tail(pat)))
    ELSE /\ s # <<>>
         /\ Head(pat) = "_" \/ Lower(Head(pat)) = Lower(Head(s))
         /\ ILike(Tail(s), Tail(pat))

(* The WHERE clause with the search's OR left outside the parentheses:      *)
(* user_id = ? AND ... AND title ILIKE ? OR description ILIKE ?.            *)
ListQueryOrUnbound(tbl, userID, r) ==
    {i \in 1..Len(tbl) :
        /\ Live(tbl[i])
        /\ \/ /\ tbl[i].userID = userID
              /\ IsNil(r.status) \/ tbl[i].status = Deref(r.status)
              /\ IsNil(r.priority) \/ tbl[i].priority = Deref(r.priority)
              /\ r.search = <<>>
           \/ /\ r.search # <<>>
              /\ \/ ILike(tbl[i].title, <<"%">> \o r.search \o <<"%">>)
                 \/ ILike(tbl[i].description, <<"%">> \o r.search \o <<"%">>)}

(* The WHERE clause todoRepository.GetByUserID builds. *)
ListQuery(tbl, userID, r) ==
    {i \in 1..Len(tbl) :
        /\ Live(tbl[i])
        /\ tbl[i].userID = userID
        /\ IsNil(r.status) \/ tbl[i].status = Deref(r.status)
        /\ IsNil(r.priority) \/ tbl[i].priority = Deref(r.priority)
        /\ \/ r.search = <<>>
           \/ ILike(tbl[i].title, <<"%">> \o r.search \o <<"%">>)
           \/ ILike(tbl[i].description, <<"%">> \o r.search \o <<"%">>)}

(* query.Count *)
(* Count over every row of the caller, as db.Unscoped() would count. *)
ListCountUnscoped(tbl, userID, r) ==
    Cardinality({i \in 1..Len(tbl) : tbl[i].userID = userID})

ListCount(tbl, userID, r) == Cardinality(ListQuery(tbl, userID, r))

(* The matching rows ordered oldest first. *)
ListOrdersAscending(tbl, ids) ==
    {o \in [1..Cardinality(ids) -> ids] :
        /\ \A a, b \in 1..Cardinality(ids) : a # b => o[a] # o[b]
        /\ \A a, b \in 1..Cardinality(ids) :
              a < b => tbl[o[a]].createdAt <= tbl[o[b]].createdAt}

(* ORDER BY created_at DESC: every order of the matching rows that puts a   *)
(* later created_at first; rows created in the same instant come in any     *)
(* order.                                                                   *)
ListOrders(tbl, ids) ==
    {o \in [1..Cardinality(ids) -> ids] :
        /\ \A a, b \in 1..Cardinality(ids) : a # b => o[a] # o[b]
        /\ \A a, b \in 1..Cardinality(ids) :
              a < b => tbl[o[a]].createdAt >= tbl[o[b]].createdAt}

(* Go's int: two's complement of IntBits bits, wrapping silently. *)
WrapInt(x) ==
    ((x + 2^(IntBits - 1)) % 2^IntBits) - 2^(IntBits - 1)

(* offset := (req.Page - 1) * req.Limit *)
PageOffset(r) == WrapInt((r.page - 1) * r.limit)

(* An ordered result cut to its first row only, whatever the limit. *)
OffsetLimitOne(o, offset, limit) ==
    SubSeq(o, Max(offset, 0) + 1, Min(Len(o), Max(offset, 0) + 1))

(* OFFSET offset LIMIT limit of an ordered result; gorm writes the OFFSET   *)
(* clause only for an offset above 0.                                       *)
OffsetLimit(o, offset, limit) ==
    SubSeq(o, Max(offset, 0) + 1, Min(Len(o), Max(offset, 0) + limit))

(* query.Order(...).Offset(...).Limit(...).Find: the pages the query may    *)
(* return.                                                                  *)
ListFind(tbl, userID, r) ==
    {[k \in 1..Len(OffsetLimit(o, PageOffset(r), r.limit)) |->
          tbl[OffsetLimit(o, PageOffset(r), r.limit)[k]]] :
        o \in ListOrders(tbl, ListQuery(tbl, userID, r))}

(* math.Ceil(float64(total) / float64(limit)) *)
CeilDiv(a, b) == (a + b - 1) \div b

----------------------------------------------------------------------------
(* GetUserFromToken honouring a token only in the hour it was issued. *)
GetUserFromTokenFreshOnly(tbl, tok, t) ==
    IF ~ValidateToken(tok, t) \/ tok.iat # t THEN Failed("invalid token")
    ELSE IF IsNil(tok.user_id) THEN Failed("invalid token claims")
    ELSE UserRepoGetByID(tbl, Deref(tok.user_id))

(* service: authService.GetUserFromToken *)
GetUserFromToken(tbl, tok, t) ==
    IF ~ValidateToken(tok, t) THEN Failed("invalid token")
    ELSE IF IsNil(tok.user_id) THEN Failed("invalid token claims")
    ELSE UserRepoGetByID(tbl, Deref(tok.user_id))

(* middleware: AuthMiddleware.  A header is the list of its parts between   *)
(* spaces (strings.Split), <<>> when the request has none; its second part  *)
(* is the token.                                                            *)
AuthMiddleware(tbl, hdr, t) ==
    IF hdr = <<>>
    THEN [ok |-> FALSE, error |-> "Authorization header required", user |-> Nil]
    ELSE IF Len(hdr) # 2 \/ hdr[1] # "Bearer"
    THEN [ok |-> FALSE, error |-> "Invalid authorization header format", user |-> Nil]
    ELSE IF GetUserFromToken(tbl, hdr[2], t).err # ErrNone
    THEN [ok |-> FALSE, error |-> "Invalid token", user |-> Nil]
    ELSE [ok |-> TRUE, error |-> "", user |-> GetUserFromToken(tbl, hdr[2], t).row]

(* main: setupRouter.  The routes and the ones behind AuthMiddleware. *)
TodoRoutes ==
    {"todos.create", "todos.list", "todos.get", "todos.update", "todos.delete",
     "todos.toggle"}
Routes == {"health", "auth.register", "auth.login", "auth.me"} \cup TodoRoutes

(* The router with DELETE /todos/:id registered outside the protected group. *)
ProtectedButDelete(route) == route \in (TodoRoutes \ {"todos.delete"}) \cup {"auth.me"}

Protected(route) == route \in TodoRoutes \cup {"auth.me"}

(* The handler chain of a route: what reaches the handler. *)
Chain(route, hdr) ==
    IF Protected(route) THEN AuthMiddleware(users, hdr, now)
    ELSE [ok |-> TRUE, error |-> "", user |-> Nil]

(* c.Get("user_id"): the id AuthMiddleware set, 0 when it set none. *)
CtxUserID(chain) == IF IsNil(chain.user) THEN 0 ELSE Deref(chain.user).id

----------------------------------------------------------------------------
(* Requests and responses. *)

Idle == [pc |-> "idle", route |-> "", hdr |-> <<>>, uid |-> 0, id |-> 0,
         in |-> <<>>, loaded |-> <<>>]

NoResp == [route |-> "", by |-> "", status |-> 0, body |-> <<>>, hdr |-> <<>>,
           uid |-> 0, id |-> 0, in |-> <<>>]

Response(route, by, status, body, hdr, uid, id, in) ==
    [route |-> route, by |-> by, status |-> status, body |-> body, hdr |-> hdr,
     uid |-> uid, id |-> id, in |-> in]

ErrorBody(msg) == [error |-> msg]

Workers == 1..world.workers

(* The tokens a client may hold: for each user, the token a login at any    *)
(* hour since the registration returned (login changes no state, so the     *)
(* user may have logged in at each of them), while the row was live.        *)
IssuedTokens ==
    UNION {{GenerateToken(users[i].id, t) :
                t \in {h \in 0..now : /\ users[i].createdAt <= h
                                      /\ Live(users[i]) \/ h <= Deref(users[i].deletedAt)}} :
           i \in 1..Len(users)}

(* The Authorization headers the clients of this run send: none, a token    *)
(* they hold as "Bearer <token>", the token just issued under another       *)
(* scheme or followed by a third part, and tokens of their own making.      *)
Headers ==
    (IF "none" \in world.headers THEN {<<>>} ELSE {})
    \cup (IF "bearer" \in world.headers
          THEN {<<"Bearer", tok>> : tok \in IssuedTokens} ELSE {})
    \cup (IF "basic" \in world.headers
          THEN {<<"Basic", tok>> : tok \in {k \in IssuedTokens : k.iat = now}} ELSE {})
    \cup (IF "extra" \in world.headers
          THEN {<<"Bearer", tok, "x">> : tok \in {k \in IssuedTokens : k.iat = now}}
          ELSE {})
    \cup {<<"Bearer", tok>> : tok \in world.forged}

----------------------------------------------------------------------------
(* Steps.  A step that answers the request writes resp; any other step      *)
(* leaves resp empty.                                                       *)

Respond(r) == resp' = r
Silent == resp' = NoResp

(* A worker is free to take a request. *)
Free == \E w \in Workers : req[w].pc = "idle"

Begin(w, r) == req' = [req EXCEPT ![w] = r]
End(w) == req' = [req EXCEPT ![w] = Idle]

(* The database goes down, or comes back. *)
Outage ==
    /\ world' = [world EXCEPT !.down = ~@]
    /\ Silent
    /\ UNCHANGED <<users, todos, now, req>>

(* One hour passes. *)
Tick ==
    /\ now < world.maxTime
    /\ now' = now + 1
    /\ Silent
    /\ UNCHANGED <<users, todos, req, world>>

(* main: the /health handler *)
Health ==
    \E hdr \in Headers :
        /\ Free
        /\ Chain("health", hdr).ok
        /\ Respond(Response("health", "handler", StatusOK,
                            [status |-> "ok", message |-> "Todo API is running"],
                            hdr, 0, 0, <<>>))
        /\ UNCHANGED <<users, todos, now, req, world>>

(* middleware: AuthMiddleware aborting the chain: 401, c.Abort(). *)
Abort ==
    \E route \in Routes, hdr \in Headers :
        /\ Free
        /\ ~Chain(route, hdr).ok
        /\ Respond(Response(route, "middleware", StatusUnauthorized,
                            ErrorBody(Chain(route, hdr).error), hdr, 0, 0, <<>>))
        /\ UNCHANGED <<users, todos, now, req, world>>

(* handler: AuthHandler.Register up to the service's userRepo.GetByEmail    *)
(* and the hashing of the password.                                         *)
RegisterBegin(w) ==
    \E hdr \in Headers, bind \in world.binds, in \in world.registers :
        /\ req[w].pc = "idle"
        /\ Chain("auth.register", hdr).ok
        /\ LET R(status, body) ==
                   Response("auth.register", "handler", status, body, hdr, 0, 0, in)
               existing == UserRepoGetByEmail(users, in.email)
           IN  IF ~bind
               THEN Respond(R(StatusBadRequest, ErrorBody("Invalid request body")))
                    /\ UNCHANGED req
               ELSE IF ~ValidUserRequest(in)
               THEN Respond(R(StatusBadRequest, ErrorBody("Validation failed")))
                    /\ UNCHANGED req
               ELSE IF existing.err \notin {ErrNone, ErrRecordNotFound}
               THEN Respond(R(StatusInternalServerError, ErrorBody("Internal server error")))
                    /\ UNCHANGED req
               ELSE IF ~IsNil(existing.row)
               THEN Respond(R(StatusBadRequest,
                              ErrorBody("user with this email already exists")))
                    /\ UNCHANGED req
               ELSE \E salt \in world.salts :
                        /\ Len(users) + Cardinality({v \in Workers :
                                            req[v].pc = "register.create"}) < MaxUsers
                        /\ Begin(w, [Idle EXCEPT
                               !.pc = "register.create", !.route = "auth.register",
                               !.hdr = hdr, !.in = in,
                               !.loaded = [name |-> in.name, email |-> in.email,
                                           password |->
                                               GenerateFromPassword(in.password, salt)]])
                        /\ Silent
        /\ UNCHANGED <<users, todos, now, world>>

(* handler: AuthHandler.Register from the service's userRepo.Create on. *)
RegisterCreate(w) ==
    /\ req[w].pc = "register.create"
    /\ LET R(status, body) ==
               Response("auth.register", "handler", status, body, req[w].hdr, 0, 0,
                        req[w].in)
       IN  IF StoreDown \/ UserEmailTaken(users, req[w].loaded.email)
           THEN /\ Respond(R(StatusInternalServerError,
                             ErrorBody("Internal server error")))
                /\ UNCHANGED users
           ELSE /\ users' = UserRepoCreate(users, req[w].loaded, now)
                /\ Respond(R(StatusCreated, UserToResponse(users'[Len(users')])))
    /\ End(w)
    /\ UNCHANGED <<todos, now, world>>

ErrInvalidCredentials == "invalid email or password"

(* Login telling an unknown email from a wrong password. *)
AuthServiceLoginTelling(tbl, in, t) ==
    LET found == UserRepoGetByEmail(tbl, in.email)
    IN  IF found.err # ErrNone
        THEN [err |-> found.err, response |-> Nil]
        ELSE IF ~CompareHashAndPassword(Deref(found.row).password, in.password)
        THEN [err |-> ErrInvalidCredentials, response |-> Nil]
        ELSE [err |-> ErrNone,
              response |-> Ptr([token |-> GenerateToken(Deref(found.row).id, t),
                                user |-> UserToResponse(Deref(found.row))])]

(* Login reporting every failure of the lookup as wrong credentials. *)
AuthServiceLoginMasking(tbl, in, t) ==
    LET found == UserRepoGetByEmail(tbl, in.email)
    IN  IF found.err # ErrNone
        THEN [err |-> ErrInvalidCredentials, response |-> Nil]
        ELSE IF ~CompareHashAndPassword(Deref(found.row).password, in.password)
        THEN [err |-> ErrInvalidCredentials, response |-> Nil]
        ELSE [err |-> ErrNone,
              response |-> Ptr([token |-> GenerateToken(Deref(found.row).id, t),
                                user |-> UserToResponse(Deref(found.row))])]

(* service: authService.Login *)
AuthServiceLogin(tbl, in, t) ==
    LET found == UserRepoGetByEmail(tbl, in.email)
    IN  IF found.err = ErrRecordNotFound
        THEN [err |-> ErrInvalidCredentials, response |-> Nil]
        ELSE IF found.err # ErrNone
        THEN [err |-> found.err, response |-> Nil]
        ELSE IF ~CompareHashAndPassword(Deref(found.row).password, in.password)
        THEN [err |-> ErrInvalidCredentials, response |-> Nil]
        ELSE [err |-> ErrNone,
              response |-> Ptr([token |-> GenerateToken(Deref(found.row).id, t),
                                user |-> UserToResponse(Deref(found.row))])]

(* frontend: AuthAPI.logout.  The client drops its token and posts to       *)
(* /auth/logout, a path setupRouter registers no handler for: gin answers   *)
(* 404 and nothing on the server changes.                                   *)
Logout ==
    /\ Free
    /\ Respond(Response("auth.logout", "router", StatusNotFound,
                        "404 page not found", <<>>, 0, 0, <<>>))
    /\ UNCHANGED <<users, todos, now, req, world>>

(* handler: AuthHandler.Login *)
Login ==
    \E hdr \in Headers, bind \in world.binds, in \in world.logins :
        /\ Free
        /\ Chain("auth.login", hdr).ok
        /\ LET R(status, body) ==
                   Response("auth.login", "handler", status, body, hdr, 0, 0, in)
               out == AuthServiceLogin(users, in, now)
           IN  IF ~bind
               THEN Respond(R(StatusBadRequest, ErrorBody("Invalid request body")))
               ELSE IF ~ValidLoginRequest(in)
               THEN Respond(R(StatusBadRequest, ErrorBody("Validation failed")))
               ELSE IF out.err = ErrInvalidCredentials
               THEN Respond(R(StatusUnauthorized, ErrorBody(out.err)))
               ELSE IF out.err # ErrNone
               THEN Respond(R(StatusInternalServerError, ErrorBody("Internal server error")))
               ELSE Respond(R(StatusOK, Deref(out.response)))
        /\ UNCHANGED <<users, todos, now, req, world>>

(* handler: AuthHandler.Me *)
Me ==
    \E hdr \in Headers :
        /\ Free
        /\ Chain("auth.me", hdr).ok
        /\ LET user == Chain("auth.me", hdr).user
               R(status, body) ==
                   Response("auth.me", "handler", status, body, hdr,
                            CtxUserID(Chain("auth.me", hdr)), 0, <<>>)
           IN  IF IsNil(user)
               THEN Respond(R(StatusUnauthorized, ErrorBody("User not found in context")))
               ELSE Respond(R(StatusOK, UserToResponse(Deref(user))))
        /\ UNCHANGED <<users, todos, now, req, world>>

(* repository: userRepository.Delete, which no route calls: an operator of  *)
(* the database retires an account.                                         *)
RetireUser ==
    \E id \in 1..Len(users) :
        /\ Live(users[id])
        /\ users' = UserRepoDelete(users, id, now)
        /\ Silent
        /\ UNCHANGED <<todos, now, req, world>>

----------------------------------------------------------------------------
(* Todo handlers.  The router binds :id to a non-empty path segment, so the *)
(* handlers' "Todo ID is required" branch is never taken.                   *)

InternalError == ErrorBody("Internal server error")
NotFound == ErrorBody("todo not found")

(* handler: c.ShouldBindJSON(&req) for a CreateTodoRequest.  The decoder    *)
(* keeps the members of the body that the struct has a field for, leaves    *)
(* the zero value in the fields the body does not mention, and drops every  *)
(* other member.                                                            *)
BindCreateTodoRequest(body) ==
    [title |-> IF "title" \in DOMAIN body THEN body.title ELSE <<>>,
     description |-> IF "description" \in DOMAIN body THEN body.description ELSE <<>>,
     priority |-> IF "priority" \in DOMAIN body THEN body.priority ELSE "",
     due_date |-> IF "due_date" \in DOMAIN body THEN body.due_date ELSE Nil]

(* Create storing the new Todo as completed. *)
NewTodoCompleted(userID, r) ==
    [title |-> r.title, description |-> r.description, priority |-> r.priority,
     status |-> StatusCompleted, userID |-> userID, dueDate |-> r.due_date]

(* service: todoService.Create, the Todo it builds *)
NewTodo(userID, r) ==
    [title |-> r.title, description |-> r.description, priority |-> r.priority,
     status |-> StatusPending, userID |-> userID, dueDate |-> r.due_date]

(* handler: TodoHandler.Create with service: todoService.Create *)
TodoCreate ==
    \E hdr \in Headers, bind \in world.binds, in \in world.creates :
        /\ Free
        /\ Chain("todos.create", hdr).ok
        /\ LET uid == CtxUserID(Chain("todos.create", hdr))
               r == BindCreateTodoRequest(in)
               R(status, body) ==
                   Response("todos.create", "handler", status, body, hdr, uid, 0, in)
           IN  IF IsNil(Chain("todos.create", hdr).user)
               THEN Respond(R(StatusUnauthorized, ErrorBody("User ID not found in context")))
                    /\ UNCHANGED todos
               ELSE IF ~bind
               THEN Respond(R(StatusBadRequest, ErrorBody("Invalid request body")))
                    /\ UNCHANGED todos
               ELSE IF ~ValidCreateTodoRequest(r)
               THEN Respond(R(StatusBadRequest, ErrorBody("Validation failed")))
                    /\ UNCHANGED todos
               ELSE IF StoreDown
               THEN Respond(R(StatusInternalServerError, InternalError))
                    /\ UNCHANGED todos
               ELSE /\ Len(todos) < MaxTodos
                    /\ todos' = TodoRepoCreate(todos, NewTodo(uid, r), now)
                    /\ Respond(R(StatusCreated,
                                 TodoToResponse(TodoAfterCreate(todos, NewTodo(uid, r), now))))
        /\ UNCHANGED <<users, now, req, world>>

(* handler: TodoHandler.GetByID with service: todoService.GetByID *)
TodoGetByID ==
    \E hdr \in Headers, id \in world.ids :
        /\ Free
        /\ Chain("todos.get", hdr).ok
        /\ LET uid == CtxUserID(Chain("todos.get", hdr))
               R(status, body) ==
                   Response("todos.get", "handler", status, body, hdr, uid, id, <<>>)
               got == GetUserTodoByID(todos, uid, id)
           IN  IF IsNil(Chain("todos.get", hdr).user)
               THEN Respond(R(StatusUnauthorized, ErrorBody("User ID not found in context")))
               ELSE IF got.err = ErrRecordNotFound
               THEN Respond(R(StatusNotFound, NotFound))
               ELSE IF got.err # ErrNone
               THEN Respond(R(StatusInternalServerError, InternalError))
               ELSE Respond(R(StatusOK, TodoToResponse(Deref(got.row))))
        /\ UNCHANGED <<users, todos, now, req, world>>

(* service: todoService.GetList, the defaults it sets before the query *)
ListDefaults(r) ==
    [r EXCEPT !.page = IF r.page < 1 THEN 1 ELSE r.page,
              !.limit = IF r.limit < 1 \/ r.limit > LimitMax THEN DefaultLimit
                        ELSE r.limit]

(* handler: TodoHandler.GetList up to the repository's query.Count *)
TodoListCount(w) ==
    \E hdr \in Headers, bind \in world.binds, in \in world.lists :
        /\ req[w].pc = "idle"
        /\ Chain("todos.list", hdr).ok
        /\ LET uid == CtxUserID(Chain("todos.list", hdr))
               R(status, body) ==
                   Response("todos.list", "handler", status, body, hdr, uid, 0, in)
           IN  IF IsNil(Chain("todos.list", hdr).user)
               THEN Respond(R(StatusUnauthorized, ErrorBody("User ID not found in context")))
                    /\ UNCHANGED req
               ELSE IF ~bind
               THEN Respond(R(StatusBadRequest, ErrorBody("Invalid query parameters")))
                    /\ UNCHANGED req
               ELSE IF ~ValidTodoListRequest(in)
               THEN Respond(R(StatusBadRequest, ErrorBody("Validation failed")))
                    /\ UNCHANGED req
               ELSE IF StoreDown
               THEN Respond(R(StatusInternalServerError, InternalError))
                    /\ UNCHANGED req
               ELSE /\ Begin(w, [Idle EXCEPT
                          !.pc = "list.find", !.route = "todos.list", !.hdr = hdr,
                          !.uid = uid, !.in = in,
                          !.loaded = ListCount(todos, uid, ListDefaults(in))])
                    /\ Silent
        /\ UNCHANGED <<users, todos, now, world>>

(* handler: TodoHandler.GetList from the repository's Find on *)
TodoListFind(w) ==
    /\ req[w].pc = "list.find"
    /\ IF StoreDown
       THEN Respond(Response("todos.list", "handler", StatusInternalServerError,
                             InternalError, req[w].hdr, req[w].uid, 0, req[w].in))
       ELSE
       \E page \in ListFind(todos, req[w].uid, ListDefaults(req[w].in)) :
           Respond(Response("todos.list", "handler", StatusOK,
                            [data |-> [k \in 1..Len(page) |-> TodoToResponse(page[k])],
                             total |-> req[w].loaded,
                             page |-> ListDefaults(req[w].in).page,
                             limit |-> ListDefaults(req[w].in).limit,
                             total_pages |->
                                 CeilDiv(req[w].loaded, ListDefaults(req[w].in).limit)],
                            req[w].hdr, req[w].uid, 0, req[w].in))
    /\ End(w)
    /\ UNCHANGED <<users, todos, now, world>>

(* Update replacing the Todo by the request: a description that is not     *)
(* provided becomes empty.                                                  *)
ApplyUpdateReplacing(todo, r) ==
    [todo EXCEPT
        !.title = IF IsNil(r.title) THEN @ ELSE Deref(r.title),
        !.description = IF IsNil(r.description) THEN <<>> ELSE Deref(r.description),
        !.priority = IF IsNil(r.priority) THEN @ ELSE Deref(r.priority),
        !.status = IF IsNil(r.status) THEN @ ELSE Deref(r.status),
        !.dueDate = IF IsNil(r.due_date) THEN @ ELSE r.due_date]

(* service: todoService.Update, the fields it copies from the request *)
ApplyUpdate(todo, r) ==
    [todo EXCEPT
        !.title = IF IsNil(r.title) THEN @ ELSE Deref(r.title),
        !.description = IF IsNil(r.description) THEN @ ELSE Deref(r.description),
        !.priority = IF IsNil(r.priority) THEN @ ELSE Deref(r.priority),
        !.status = IF IsNil(r.status) THEN @ ELSE Deref(r.status),
        !.dueDate = IF IsNil(r.due_date) THEN @ ELSE r.due_date]

(* ToggleStatus that marks the Todo completed whatever its status. *)
ToggleToCompleted(todo) == MarkAsCompleted(todo)

(* service: todoService.ToggleStatus, the flip *)
Toggle(todo) == IF IsCompleted(todo) THEN MarkAsPending(todo) ELSE MarkAsCompleted(todo)

(* The first half of Update, Delete and ToggleStatus: the handler up to the *)
(* service's GetUserTodoByID.  pc names the statement that comes next.      *)
Load(w, route, pc, hdr, id, in, bind, valid) ==
    /\ req[w].pc = "idle"
    /\ Chain(route, hdr).ok
    /\ LET chain == Chain(route, hdr)
           uid == CtxUserID(chain)
           R(status, body) == Response(route, "handler", status, body, hdr, uid, id, in)
           got == GetUserTodoByID(todos, uid, id)
       IN  IF IsNil(chain.user)
           THEN Respond(R(StatusUnauthorized, ErrorBody("User ID not found in context")))
                /\ UNCHANGED req
           ELSE IF ~bind
           THEN Respond(R(StatusBadRequest, ErrorBody("Invalid request body")))
                /\ UNCHANGED req
           ELSE IF ~valid
           THEN Respond(R(StatusBadRequest, ErrorBody("Validation failed")))
                /\ UNCHANGED req
           ELSE IF got.err = ErrRecordNotFound
           THEN Respond(R(StatusNotFound, NotFound)) /\ UNCHANGED req
           ELSE IF got.err # ErrNone
           THEN Respond(R(StatusInternalServerError, InternalError)) /\ UNCHANGED req
           ELSE /\ Begin(w, [Idle EXCEPT !.pc = pc, !.route = route, !.hdr = hdr,
                                         !.uid = uid, !.id = id, !.in = in,
                                         !.loaded = Deref(got.row)])
                /\ Silent
    /\ UNCHANGED <<users, todos, now, world>>

(* The second half of Update and ToggleStatus: todoRepo.Update(todo) and    *)
(* the response built from the struct just saved.                           *)
Save(w, todo) ==
    /\ IF StoreDown
       THEN /\ UNCHANGED todos
            /\ Respond(Response(req[w].route, "handler", StatusInternalServerError,
                                InternalError, req[w].hdr, req[w].uid, req[w].id,
                                req[w].in))
       ELSE /\ todos' = TodoRepoUpdate(todos, todo, now)
            /\ Respond(Response(req[w].route, "handler", StatusOK,
                                TodoToResponse([todo EXCEPT !.updatedAt = now]),
                                req[w].hdr, req[w].uid, req[w].id, req[w].in))
    /\ End(w)
    /\ UNCHANGED <<users, now, world>>

(* handler: TodoHandler.Update with service: todoService.Update *)
TodoUpdateLoad(w) ==
    \E hdr \in Headers, id \in world.ids, bind \in world.binds, in \in world.updates :
        Load(w, "todos.update", "update.save", hdr, id, in, bind,
             ValidUpdateTodoRequest(in))

TodoUpdateSave(w) ==
    /\ req[w].pc = "update.save"
    /\ Save(w, ApplyUpdate(req[w].loaded, req[w].in))

(* handler: TodoHandler.ToggleStatus with service: todoService.ToggleStatus *)
TodoToggleLoad(w) ==
    \E hdr \in Headers, id \in world.ids :
        Load(w, "todos.toggle", "toggle.save", hdr, id, <<>>, TRUE, TRUE)

TodoToggleSave(w) ==
    /\ req[w].pc = "toggle.save"
    /\ Save(w, Toggle(req[w].loaded))

(* handler: TodoHandler.Delete with service: todoService.Delete *)
TodoDeleteLoad(w) ==
    \E hdr \in Headers, id \in world.ids :
        Load(w, "todos.delete", "delete.exec", hdr, id, <<>>, TRUE, TRUE)

TodoDeleteExec(w) ==
    /\ req[w].pc = "delete.exec"
    /\ IF StoreDown
       THEN /\ UNCHANGED todos
            /\ Respond(Response("todos.delete", "handler", StatusInternalServerError,
                                InternalError, req[w].hdr, req[w].uid, req[w].id, <<>>))
       ELSE /\ todos' = TodoRepoDelete(todos, req[w].id, now)
            /\ Respond(Response("todos.delete", "handler", StatusNoContent, <<>>,
                                req[w].hdr, req[w].uid, req[w].id, <<>>))
    /\ End(w)
    /\ UNCHANGED <<users, now, world>>

----------------------------------------------------------------------------
(* The inputs clients send. *)

EmailA == <<"a", "@", "x">>
EmailB == <<"b", "@", "x">>
EmailMalformed == <<"a", "x">>
NameA == <<"A">>
NameB == <<"B">>
PasswordA == Rep("p", PasswordMin)
PasswordB == Rep("q", PasswordMin)
PasswordShort == Rep("p", PasswordMin - 1)

DueOnTheMicrosecond == Ptr(2 * MicroNanos)
DueOffTheMicrosecond == Ptr(2 * MicroNanos + 1)
DueLater == Ptr(3 * MicroNanos)
DueLaterOffTheMicrosecond == Ptr(3 * MicroNanos + 1)

TitleMilk == <<"M", "i">>
TitleBread == <<"b">>
TitleTooLong == Rep("x", TitleMax + 1)
DescriptionNone == <<>>
DescriptionMilk == <<"a", "m">>
DescriptionTooLong == Rep("x", DescriptionMax + 1)
TitleEmpty == <<>>
PriorityUrgent == "urgent"
StatusDone == "done"

UserRequest(name, email, password) ==
    [name |-> name, email |-> email, password |-> password]
LoginRequest(email, password) == [email |-> email, password |-> password]
CreateTodoRequest(title, description, priority, due) ==
    [title |-> title, description |-> description, priority |-> priority,
     due_date |-> due]
UpdateTodoRequest(title, description, priority, status, due) ==
    [title |-> title, description |-> description, priority |-> priority,
     status |-> status, due_date |-> due]
TodoListRequest(page, limit, status, priority, search) ==
    [page |-> page, limit |-> limit, status |-> status, priority |-> priority,
     search |-> search]

(* Tokens no login issued: unsigned, signed with another key, or carrying   *)
(* a subject of the attacker's choice.                                      *)
ForgedTokens ==
    {[alg |-> "none", user_id |-> Ptr(1), exp |-> Ptr(MaxTime + ExpirationHours),
      iat |-> 0, key |-> ""],
     [alg |-> "HS256", user_id |-> Ptr(1), exp |-> Ptr(MaxTime + ExpirationHours),
      iat |-> 0, key |-> "attacker-key"]}

(* Tokens by the algorithm their header names: unsigned, signed with the    *)
(* secret by another HMAC method than GenerateToken's, naming an RSA method *)
(* over the secret's bytes, and signed with HS256 under another key.        *)
TokenOfMethod(alg, key) ==
    [alg |-> alg, user_id |-> Ptr(1), exp |-> Ptr(MaxTime + ExpirationHours),
     iat |-> 0, key |-> key]

MethodTokens ==
    {TokenOfMethod("none", ""), TokenOfMethod("HS384", JWTSecret),
     TokenOfMethod("RS256", JWTSecret), TokenOfMethod("HS256", "attacker-key")}

(* The users table after the accounts of regs registered, in that order,   *)
(* at hour 0: what RegisterBegin and RegisterCreate leave for each.         *)
RECURSIVE Registered(_)
Registered(regs) ==
    IF regs = <<>> THEN <<>>
    ELSE UserRepoCreate(Registered(SubSeq(regs, 1, Len(regs) - 1)),
                        [name |-> regs[Len(regs)].name, email |-> regs[Len(regs)].email,
                         password |->
                             GenerateFromPassword(regs[Len(regs)].password, 1)], 0)

(* Clients of the Todo routes: two accounts, each working on its own and on *)
(* the other's Todos, one request at a time.                                *)
WorldTodo ==
    [workers |-> 1, maxTime |-> 0,
     headers |-> {"bearer"}, forged |-> {}, binds |-> {TRUE}, salts |-> {1},
     registers |-> {}, logins |-> {},
     ids |-> 1..MaxTodos,
     creates |-> {CreateTodoRequest(TitleMilk, DescriptionNone, PriorityHigh, Nil)},
     updates |-> {UpdateTodoRequest(Nil, Nil, Nil, Ptr(StatusCompleted), Nil),
                  UpdateTodoRequest(Ptr(TitleTooLong), Nil, Nil, Nil, Nil)},
     lists |-> {TodoListRequest(1, 1, Nil, Nil, <<>>),
                TodoListRequest(1, 2, Nil, Nil, <<"m">>)}]

InitWorld(w, accounts, hour) ==
    /\ users = Registered(accounts)
    /\ todos = <<>>
    /\ now = hour
    /\ req = [v \in 1..w.workers |-> Idle]
    /\ resp = NoResp
    /\ world = w @@ [down |-> FALSE]

(* The Todo routes, served to two registered accounts. *)
Init ==
    InitWorld(WorldTodo, <<UserRequest(NameA, EmailA, PasswordA),
                           UserRequest(NameB, EmailB, PasswordB)>>, 0)

Next ==
    \/ TodoCreate
    \/ TodoGetByID
    \/ \E w \in Workers : TodoListCount(w)
    \/ \E w \in Workers : TodoListFind(w)
    \/ \E w \in Workers : TodoUpdateLoad(w)
    \/ \E w \in Workers : TodoUpdateSave(w)
    \/ \E w \in Workers : TodoToggleLoad(w)
    \/ \E w \in Workers : TodoToggleSave(w)
    \/ \E w \in Workers : TodoDeleteLoad(w)
    \/ \E w \in Workers : TodoDeleteExec(w)

Spec == Init /\ [][Next]_vars

(* Clients at the gate: one registered account, ExpirationHours after it   *)
(* registered, so that the token of its first login has expired; requests   *)
(* to every route with every kind of Authorization header.                  *)
WorldGate ==
    [workers |-> 1, maxTime |-> ExpirationHours,
     headers |-> {"none", "bearer", "basic", "extra"}, forged |-> ForgedTokens,
     binds |-> {TRUE}, salts |-> {1},
     registers |-> {UserRequest(NameB, EmailB, PasswordB)},
     logins |-> {LoginRequest(EmailA, PasswordA)},
     ids |-> {1},
     creates |-> {CreateTodoRequest(TitleMilk, DescriptionNone, PriorityHigh, Nil)},
     updates |-> {UpdateTodoRequest(Nil, Nil, Nil, Ptr(StatusCompleted), Nil)},
     lists |-> {TodoListRequest(1, 1, Nil, Nil, <<>>)}]

InitGate ==
    InitWorld(WorldGate, <<UserRequest(NameA, EmailA, PasswordA)>>, ExpirationHours)

NextGate ==
    \/ Health
    \/ Abort
    \/ Login
    \/ Me
    \/ \E w \in Workers : RegisterBegin(w)
    \/ \E w \in Workers : RegisterCreate(w)
    \/ Next

SpecGate == InitGate /\ [][NextGate]_vars

(* Two registered accounts whose holders use the Todo routes and /auth/me   *)
(* with the tokens they were issued, while accounts are retired.            *)
WorldRetire ==
    [workers |-> 1, maxTime |-> 0,
     headers |-> {"bearer"}, forged |-> {}, binds |-> {TRUE}, salts |-> {1},
     registers |-> {}, logins |-> {},
     ids |-> {1},
     creates |-> {CreateTodoRequest(TitleMilk, DescriptionNone, PriorityHigh, Nil)},
     updates |-> {UpdateTodoRequest(Nil, Nil, Nil, Ptr(StatusCompleted), Nil)},
     lists |-> {TodoListRequest(1, 1, Nil, Nil, <<>>)}]

InitRetire ==
    InitWorld(WorldRetire, <<UserRequest(NameA, EmailA, PasswordA),
                             UserRequest(NameB, EmailB, PasswordB)>>, 0)

NextRetire ==
    \/ RetireUser
    \/ Abort
    \/ Me
    \/ Next

SpecRetire == InitRetire /\ [][NextRetire]_vars

(* One client at a time registers, logs in and asks who it is. *)
WorldAuth ==
    [workers |-> 1, maxTime |-> 0,
     headers |-> {"none", "bearer"}, forged |-> {}, binds |-> {TRUE}, salts |-> {1},
     registers |-> {UserRequest(NameA, EmailA, PasswordA),
                    UserRequest(NameB, EmailA, PasswordB),
                    UserRequest(NameB, EmailB, PasswordB),
                    UserRequest(NameA, EmailA, PasswordShort)},
     logins |-> {LoginRequest(EmailA, PasswordA),
                 LoginRequest(EmailA, PasswordB),
                 LoginRequest(EmailB, PasswordB)},
     ids |-> {}, creates |-> {}, updates |-> {}, lists |-> {}]

InitAuth == InitWorld(WorldAuth, <<>>, 0)

NextAuth ==
    \/ \E w \in Workers : RegisterBegin(w)
    \/ \E w \in Workers : RegisterCreate(w)
    \/ Login
    \/ Me
    \/ Abort

SpecAuth == InitAuth /\ [][NextAuth]_vars

(* Register requests served concurrently by MaxWorkers workers. *)
WorldRace ==
    [workers |-> MaxWorkers, maxTime |-> 0,
     headers |-> {"none"}, forged |-> {}, binds |-> {TRUE}, salts |-> {1},
     registers |-> {UserRequest(NameA, EmailA, PasswordA),
                    UserRequest(NameB, EmailA, PasswordB),
                    UserRequest(NameB, EmailB, PasswordB),
                    UserRequest(NameA, EmailMalformed, PasswordA)},
     logins |-> {}, ids |-> {}, creates |-> {}, updates |-> {}, lists |-> {}]

InitRace == InitWorld(WorldRace, <<>>, 0)

NextRace ==
    \/ \E w \in Workers : RegisterBegin(w)
    \/ \E w \in Workers : RegisterCreate(w)

SpecRace == InitRace /\ [][NextRace]_vars

(* One registered account whose holder logs in hour after hour and keeps   *)
(* presenting every token it was given, until the last of them has expired. *)
WorldClock ==
    [workers |-> 1, maxTime |-> MaxTime,
     headers |-> {"none", "bearer", "basic"}, forged |-> {}, binds |-> {TRUE},
     salts |-> {1},
     registers |-> {},
     logins |-> {LoginRequest(EmailA, PasswordA), LoginRequest(EmailA, PasswordB)},
     ids |-> {}, creates |-> {}, updates |-> {}, lists |-> {}]

InitClock == InitWorld(WorldClock, <<UserRequest(NameA, EmailA, PasswordA)>>, 0)

NextClock ==
    \/ Tick
    \/ Login
    \/ Me
    \/ Abort

SpecClock == InitClock /\ [][NextClock]_vars

(* One account over the lifetime of its first token: it logs in again, logs *)
(* out, and works on its Todos in between.                                  *)
WorldSession ==
    [workers |-> 1, maxTime |-> ExpirationHours,
     headers |-> {"bearer"}, forged |-> {}, binds |-> {TRUE}, salts |-> {1},
     registers |-> {},
     logins |-> {LoginRequest(EmailA, PasswordA)},
     ids |-> {1},
     creates |-> {CreateTodoRequest(TitleMilk, DescriptionNone, PriorityHigh, Nil)},
     updates |-> {UpdateTodoRequest(Nil, Nil, Nil, Ptr(StatusCompleted), Nil)},
     lists |-> {TodoListRequest(1, 1, Nil, Nil, <<>>)}]

InitSession == InitWorld(WorldSession, <<UserRequest(NameA, EmailA, PasswordA)>>, 0)

NextSession ==
    \/ Tick
    \/ Login
    \/ Logout
    \/ Me
    \/ Abort
    \/ Next

SpecSession == InitSession /\ [][NextSession]_vars

(* Two accounts create Todos and read them back.  One body carries members *)
(* CreateTodoRequest has no field for: a status and an owner; one gives a   *)
(* title and a description and no priority.                                 *)
WorldCreate ==
    [workers |-> 1, maxTime |-> 0,
     headers |-> {"bearer"}, forged |-> {}, binds |-> {TRUE}, salts |-> {1},
     registers |-> {}, logins |-> {},
     ids |-> 1..MaxTodos,
     creates |-> {CreateTodoRequest(TitleMilk, DescriptionNone, PriorityHigh, Nil),
                  [title |-> TitleBread, description |-> DescriptionMilk,
                   priority |-> PriorityLow, due_date |-> Nil,
                   status |-> StatusCompleted, user_id |-> 1],
                  CreateTodoRequest(TitleMilk, DescriptionMilk, PriorityMedium,
                                    DueOnTheMicrosecond),
                  CreateTodoRequest(TitleBread, DescriptionNone, PriorityMedium,
                                    DueOffTheMicrosecond),
                  CreateTodoRequest(TitleTooLong, DescriptionNone, PriorityLow, Nil),
                  [title |-> TitleBread, description |-> DescriptionMilk]},
     updates |-> {}, lists |-> {}]

InitCreate ==
    InitWorld(WorldCreate, <<UserRequest(NameA, EmailA, PasswordA),
                             UserRequest(NameB, EmailB, PasswordB)>>, 0)

NextCreate ==
    \/ TodoCreate
    \/ TodoGetByID

SpecCreate == InitCreate /\ [][NextCreate]_vars

(* One account creates Todos and toggles the first of them as the hours    *)
(* pass.                                                                    *)
WorldToggle ==
    [workers |-> 1, maxTime |-> MaxTime,
     headers |-> {"bearer"}, forged |-> {}, binds |-> {TRUE}, salts |-> {1},
     registers |-> {}, logins |-> {},
     ids |-> {1},
     creates |-> {CreateTodoRequest(TitleMilk, DescriptionMilk, PriorityHigh,
                                    DueOnTheMicrosecond)},
     updates |-> {}, lists |-> {}]

InitToggle == InitWorld(WorldToggle, <<UserRequest(NameA, EmailA, PasswordA)>>, 0)

NextToggle ==
    \/ Tick
    \/ TodoCreate
    \/ TodoGetByID
    \/ \E w \in Workers : TodoToggleLoad(w)
    \/ \E w \in Workers : TodoToggleSave(w)

SpecToggle == InitToggle /\ [][NextToggle]_vars

(* Clients paging through their Todos: one account creating, completing    *)
(* and deleting Todos over two instants and listing them by pages of one,   *)
(* two and four, past the last page, at the page whose offset wraps around  *)
(* Go's int, without page and limit, and with a limit above LimitMax.       *)
PageWrapping == 2^(IntBits - 2) + 1
LimitWrapping == 4

WorldList ==
    [workers |-> 1, maxTime |-> 1,
     headers |-> {"bearer"}, forged |-> {}, binds |-> {TRUE}, salts |-> {1},
     registers |-> {}, logins |-> {},
     ids |-> {1},
     creates |-> {CreateTodoRequest(TitleMilk, DescriptionNone, PriorityHigh, Nil),
                  CreateTodoRequest(TitleBread, DescriptionMilk, PriorityLow, Nil)},
     updates |-> {},
     lists |-> {TodoListRequest(p, l, Nil, Nil, <<>>) : p \in 1..3, l \in 1..2}
               \cup {TodoListRequest(PageWrapping, LimitWrapping, Nil, Nil, <<>>),
                     TodoListRequest(0, 0, Nil, Nil, <<>>),
                     TodoListRequest(1, 0, Nil, Nil, <<>>),
                     TodoListRequest(0, 1, Nil, Nil, <<>>),
                     TodoListRequest(1, LimitMax + 1, Nil, Nil, <<>>)}]

InitList == InitWorld(WorldList, <<UserRequest(NameA, EmailA, PasswordA)>>, 0)

NextList ==
    \/ Tick
    \/ TodoCreate
    \/ \E w \in Workers : TodoDeleteLoad(w)
    \/ \E w \in Workers : TodoDeleteExec(w)
    \/ \E w \in Workers : TodoListCount(w)
    \/ \E w \in Workers : TodoListFind(w)

SpecList == InitList /\ [][NextList]_vars

(* Clients filtering their Todos: one account creating and completing      *)
(* Todos over two instants and listing them on one page by status, by       *)
(* priority, by both, and by search texts with and without the characters   *)
(* "%" and "_".                                                             *)
SearchM == <<"m">>
SearchAM == <<"A", "M">>
SearchNone == <<"x">>
SearchUnderscore == <<"_">>
SearchPercent == <<"i", "%">>

WorldSearch ==
    [workers |-> 1, maxTime |-> 1,
     headers |-> {"bearer"}, forged |-> {}, binds |-> {TRUE}, salts |-> {1},
     registers |-> {}, logins |-> {},
     ids |-> {1},
     creates |-> {CreateTodoRequest(TitleMilk, DescriptionNone, PriorityHigh, Nil),
                  CreateTodoRequest(TitleBread, DescriptionMilk, PriorityLow, Nil)},
     updates |-> {},
     lists |-> {TodoListRequest(1, MaxTodos, Nil, Nil, <<>>),
                TodoListRequest(1, MaxTodos, Ptr(StatusCompleted), Nil, <<>>),
                TodoListRequest(1, MaxTodos, Nil, Ptr(PriorityHigh), <<>>),
                TodoListRequest(1, MaxTodos, Ptr(StatusPending), Ptr(PriorityLow), SearchM),
                TodoListRequest(1, MaxTodos, Nil, Nil, SearchM),
                TodoListRequest(1, MaxTodos, Nil, Nil, SearchAM),
                TodoListRequest(1, MaxTodos, Nil, Nil, SearchNone),
                TodoListRequest(1, MaxTodos, Nil, Nil, SearchUnderscore),
                TodoListRequest(1, MaxTodos, Nil, Nil, SearchPercent)}]

InitSearch == InitWorld(WorldSearch, <<UserRequest(NameA, EmailA, PasswordA)>>, 0)

NextSearch ==
    \/ Tick
    \/ TodoCreate
    \/ \E w \in Workers : TodoToggleLoad(w)
    \/ \E w \in Workers : TodoToggleSave(w)
    \/ \E w \in Workers : TodoListCount(w)
    \/ \E w \in Workers : TodoListFind(w)

SpecSearch == InitSearch /\ [][NextSearch]_vars

(* Clients updating a Todo: one account creating a Todo with a due date and *)
(* updating it over two instants with no field, with one field, with        *)
(* several, with an empty description, with due dates on and off the        *)
(* microsecond, and with a title that is too long.                          *)
WorldUpdate ==
    [workers |-> 1, maxTime |-> 1,
     headers |-> {"bearer"}, forged |-> {}, binds |-> {TRUE}, salts |-> {1},
     registers |-> {}, logins |-> {},
     ids |-> {1},
     creates |-> {CreateTodoRequest(TitleMilk, DescriptionMilk, PriorityHigh,
                                    DueOnTheMicrosecond)},
     updates |-> {UpdateTodoRequest(Nil, Nil, Nil, Nil, Nil),
                  UpdateTodoRequest(Ptr(TitleBread), Nil, Nil, Nil, Nil),
                  UpdateTodoRequest(Nil, Ptr(DescriptionNone), Nil, Nil, Nil),
                  UpdateTodoRequest(Nil, Nil, Ptr(PriorityLow), Ptr(StatusCompleted), Nil),
                  UpdateTodoRequest(Nil, Nil, Nil, Nil, DueLater),
                  UpdateTodoRequest(Nil, Nil, Nil, Ptr(StatusPending),
                                    DueLaterOffTheMicrosecond),
                  UpdateTodoRequest(Ptr(TitleTooLong), Nil, Nil, Nil, Nil)}]

InitUpdate == InitWorld(WorldUpdate, <<UserRequest(NameA, EmailA, PasswordA)>>, 0)

NextUpdate ==
    \/ Tick
    \/ TodoCreate
    \/ TodoGetByID
    \/ \E w \in Workers : TodoUpdateLoad(w)
    \/ \E w \in Workers : TodoUpdateSave(w)

SpecUpdate == InitUpdate /\ [][NextUpdate]_vars

(* Clients sending bodies that break a field constraint, next to bodies     *)
(* that break none: registers and logins of a second account, creates and   *)
(* updates of the first account's Todo.                                     *)
WorldValidate ==
    [workers |-> 1, maxTime |-> 0,
     headers |-> {"bearer"}, forged |-> {}, binds |-> {TRUE}, salts |-> {1},
     registers |-> {UserRequest(NameB, EmailB, PasswordB),
                    UserRequest(NameB, EmailMalformed, PasswordB),
                    UserRequest(NameB, EmailB, PasswordShort)},
     logins |-> {LoginRequest(EmailA, PasswordA),
                 LoginRequest(EmailMalformed, PasswordA)},
     ids |-> {1, 2},
     creates |-> {CreateTodoRequest(TitleMilk, DescriptionNone, PriorityHigh, Nil),
                  CreateTodoRequest(TitleEmpty, DescriptionNone, PriorityHigh, Nil),
                  CreateTodoRequest(TitleTooLong, DescriptionNone, PriorityHigh, Nil),
                  CreateTodoRequest(TitleMilk, DescriptionTooLong, PriorityHigh, Nil),
                  CreateTodoRequest(TitleMilk, DescriptionNone, PriorityUrgent, Nil)},
     updates |-> {UpdateTodoRequest(Ptr(TitleBread), Nil, Nil, Ptr(StatusCompleted), Nil),
                  UpdateTodoRequest(Ptr(TitleEmpty), Nil, Nil, Nil, Nil),
                  UpdateTodoRequest(Ptr(TitleTooLong), Nil, Nil, Nil, Nil),
                  UpdateTodoRequest(Nil, Ptr(DescriptionTooLong), Nil, Nil, Nil),
                  UpdateTodoRequest(Nil, Nil, Ptr(PriorityUrgent), Nil, Nil),
                  UpdateTodoRequest(Nil, Nil, Nil, Ptr(StatusDone), Nil)},
     lists |-> {}]

InitValidate == InitWorld(WorldValidate, <<UserRequest(NameA, EmailA, PasswordA)>>, 0)

NextValidate ==
    \/ \E w \in Workers : RegisterBegin(w)
    \/ \E w \in Workers : RegisterCreate(w)
    \/ Login
    \/ TodoCreate
    \/ TodoGetByID
    \/ \E w \in Workers : TodoUpdateLoad(w)
    \/ \E w \in Workers : TodoUpdateSave(w)
    \/ \E w \in Workers : TodoToggleLoad(w)
    \/ \E w \in Workers : TodoToggleSave(w)

SpecValidate == InitValidate /\ [][NextValidate]_vars

(* One account and a newcomer use every route while the database goes down *)
(* and comes back; by-id requests also name an id that is no uuid.          *)
WorldOutage ==
    [workers |-> 1, maxTime |-> 0,
     headers |-> {"bearer"}, forged |-> {}, binds |-> {TRUE}, salts |-> {1},
     registers |-> {UserRequest(NameB, EmailB, PasswordB)},
     logins |-> {LoginRequest(EmailA, PasswordA), LoginRequest(EmailA, PasswordB)},
     ids |-> {MalformedID, 1},
     creates |-> {CreateTodoRequest(TitleMilk, DescriptionNone, PriorityHigh, Nil)},
     updates |-> {UpdateTodoRequest(Nil, Nil, Nil, Ptr(StatusCompleted), Nil)},
     lists |-> {TodoListRequest(1, 1, Nil, Nil, <<>>)}]

InitOutage == InitWorld(WorldOutage, <<UserRequest(NameA, EmailA, PasswordA)>>, 0)

NextOutage ==
    \/ Outage
    \/ Abort
    \/ \E w \in Workers : RegisterBegin(w)
    \/ \E w \in Workers : RegisterCreate(w)
    \/ Login
    \/ Me
    \/ TodoCreate
    \/ TodoGetByID
    \/ \E w \in Workers : TodoListCount(w)
    \/ \E w \in Workers : TodoListFind(w)
    \/ \E w \in Workers : TodoUpdateLoad(w)
    \/ \E w \in Workers : TodoUpdateSave(w)
    \/ \E w \in Workers : TodoToggleLoad(w)
    \/ \E w \in Workers : TodoToggleSave(w)
    \/ \E w \in Workers : TodoDeleteLoad(w)
    \/ \E w \in Workers : TodoDeleteExec(w)

SpecOutage == InitOutage /\ [][NextOutage]_vars

(* One account uses its own token and tokens of other signing methods on   *)
(* the protected routes.                                                    *)
WorldMethod ==
    [workers |-> 1, maxTime |-> 0,
     headers |-> {"bearer"}, forged |-> MethodTokens, binds |-> {TRUE}, salts |-> {1},
     registers |-> {},
     logins |-> {LoginRequest(EmailA, PasswordA)},
     ids |-> 1..MaxTodos,
     creates |-> {CreateTodoRequest(TitleMilk, DescriptionNone, PriorityHigh, Nil),
                  CreateTodoRequest(TitleBread, DescriptionMilk, PriorityLow, Nil)},
     updates |-> {}, lists |-> {}]

InitMethod == InitWorld(WorldMethod, <<UserRequest(NameA, EmailA, PasswordA)>>, 0)

NextMethod ==
    \/ Abort
    \/ Login
    \/ Me
    \/ TodoCreate
    \/ TodoGetByID

SpecMethod == InitMethod /\ [][NextMethod]_vars

(* One account updates its Todo from two requests served at once: one       *)
(* provides only a title, the other only a description.                     *)
UpdateTitleOnly == UpdateTodoRequest(Ptr(TitleBread), Nil, Nil, Nil, Nil)
UpdateDescriptionOnly == UpdateTodoRequest(Nil, Ptr(DescriptionMilk), Nil, Nil, Nil)

WorldRaceUpdate ==
    [workers |-> MaxWorkers, maxTime |-> 0,
     headers |-> {"bearer"}, forged |-> {}, binds |-> {TRUE}, salts |-> {1},
     registers |-> {}, logins |-> {},
     ids |-> {1},
     creates |-> {CreateTodoRequest(TitleMilk, DescriptionNone, PriorityHigh, Nil)},
     updates |-> {UpdateTitleOnly, UpdateDescriptionOnly},
     lists |-> {}]

InitRaceUpdate ==
    InitWorld(WorldRaceUpdate, <<UserRequest(NameA, EmailA, PasswordA)>>, 0)

NextRaceUpdate ==
    \/ TodoCreate
    \/ \E w \in Workers : TodoUpdateLoad(w)
    \/ \E w \in Workers : TodoUpdateSave(w)

SpecRaceUpdate == InitRaceUpdate /\ [][NextRaceUpdate]_vars

(* One account deletes its Todo while its own toggle or update of the same  *)
(* Todo is being served, and reads it afterwards.                           *)
WorldRaceDelete ==
    [workers |-> MaxWorkers, maxTime |-> 0,
     headers |-> {"bearer"}, forged |-> {}, binds |-> {TRUE}, salts |-> {1},
     registers |-> {}, logins |-> {},
     ids |-> {1},
     creates |-> {CreateTodoRequest(TitleMilk, DescriptionNone, PriorityHigh, Nil)},
     updates |-> {UpdateTitleOnly},
     lists |-> {}]

InitRaceDelete ==
    InitWorld(WorldRaceDelete, <<UserRequest(NameA, EmailA, PasswordA)>>, 0)

NextRaceDelete ==
    \/ TodoCreate
    \/ TodoGetByID
    \/ \E w \in Workers : TodoUpdateLoad(w)
    \/ \E w \in Workers : TodoUpdateSave(w)
    \/ \E w \in Workers : TodoToggleLoad(w)
    \/ \E w \in Workers : TodoToggleSave(w)
    \/ \E w \in Workers : TodoDeleteLoad(w)
    \/ \E w \in Workers : TodoDeleteExec(w)

SpecRaceDelete == InitRaceDelete /\ [][NextRaceDelete]_vars

(* One account toggles its Todo from requests served at once. *)
WorldRaceToggle ==
    [workers |-> MaxWorkers, maxTime |-> 0,
     headers |-> {"bearer"}, forged |-> {}, binds |-> {TRUE}, salts |-> {1},
     registers |-> {}, logins |-> {},
     ids |-> {1},
     creates |-> {CreateTodoRequest(TitleMilk, DescriptionNone, PriorityHigh, Nil),
                  CreateTodoRequest(TitleBread, DescriptionMilk, PriorityLow, Nil)},
     updates |-> {}, lists |-> {}]

InitRaceToggle ==
    InitWorld(WorldRaceToggle, <<UserRequest(NameA, EmailA, PasswordA)>>, 0)

NextRaceToggle ==
    \/ TodoCreate
    \/ TodoGetByID
    \/ \E w \in Workers : TodoToggleLoad(w)
    \/ \E w \in Workers : TodoToggleSave(w)

SpecRaceToggle == InitRaceToggle /\ [][NextRaceToggle]_vars

(* One account lists its Todos while its creates and deletes are served. *)
WorldRaceList ==
    [workers |-> MaxWorkers, maxTime |-> 0,
     headers |-> {"bearer"}, forged |-> {}, binds |-> {TRUE}, salts |-> {1},
     registers |-> {}, logins |-> {},
     ids |-> {1},
     creates |-> {CreateTodoRequest(TitleMilk, DescriptionNone, PriorityHigh, Nil)},
     updates |-> {},
     lists |-> {TodoListRequest(1, 1, Nil, Nil, <<>>),
                TodoListRequest(1, 2, Nil, Nil, <<>>),
                TodoListRequest(2, 1, Nil, Nil, <<>>)}]

InitRaceList ==
    InitWorld(WorldRaceList, <<UserRequest(NameA, EmailA, PasswordA)>>, 0)

NextRaceList ==
    \/ TodoCreate
    \/ \E w \in Workers : TodoDeleteLoad(w)
    \/ \E w \in Workers : TodoDeleteExec(w)
    \/ \E w \in Workers : TodoListCount(w)
    \/ \E w \in Workers : TodoListFind(w)

SpecRaceList == InitRaceList /\ [][NextRaceList]_vars

----------------------------------------------------------------------------
(* Properties. *)

ByIDRoutes == {"todos.get", "todos.update", "todos.delete", "todos.toggle"}
MutatingRoutes == {"todos.update", "todos.delete", "todos.toggle"}

(* The response answers a by-id request of a caller for a Todo that is not  *)
(* the caller's: another account's, or one never created.                   *)
NotTheCallers(r) ==
    /\ r.by = "handler"
    /\ r.route \in ByIDRoutes
    /\ r.id # MalformedID
    /\ r.id \notin 1..Len(todos) \/ todos[r.id].userID # r.uid

(* C1: get, update, delete and toggleStatus answer a request for another    *)
(* account's Todo exactly as they answer one for an id that was never       *)
(* created: 404 "todo not found" (400 when an update's body is invalid, in  *)
(* both cases alike), never a status of its own such as 403.                *)
C1_ForeignTodoIsNotFound ==
    NotTheCallers(resp) =>
        IF resp.route = "todos.update" /\ ~ValidUpdateTodoRequest(resp.in)
        THEN resp.status = StatusBadRequest
        ELSE resp.status = StatusNotFound /\ resp.body = NotFound

C1_Witness ==
    /\ NotTheCallers(resp)
    /\ resp.route = "todos.toggle"
    /\ resp.id \in 1..Len(todos)
    /\ Live(todos[resp.id])
    /\ resp.status = StatusNotFound

(* C2: a stored Todo changes only in a step that answers a request of its   *)
(* owner addressed to it; a request of any other identity leaves every      *)
(* field of it as it was.                                                   *)
C2_OnlyOwnerMutates ==
    [][\A i \in 1..Len(todos) :
          todos'[i] # todos[i] =>
              /\ resp'.by = "handler"
              /\ resp'.route \in MutatingRoutes
              /\ resp'.uid = todos[i].userID
              /\ resp'.id = i]_vars

C2_Witness ==
    /\ NotTheCallers(resp)
    /\ resp.route = "todos.update"
    /\ ValidUpdateTodoRequest(resp.in)
    /\ resp.id \in 1..Len(todos)
    /\ Live(todos[resp.id])
    /\ todos[resp.id].status # Deref(resp.in.status)

(* C3: every item of a list response belongs to the caller and is live,     *)
(* whatever the page, the limit, the filters and the search text.           *)
C3_ListOnlyOwnLive ==
    (resp.route = "todos.list" /\ resp.status = StatusOK) =>
        \A k \in 1..Len(resp.body.data) :
            /\ resp.body.data[k].user_id = resp.uid
            /\ Live(todos[resp.body.data[k].id])
            /\ todos[resp.body.data[k].id].userID = resp.uid

C3_Witness ==
    /\ resp.route = "todos.list"
    /\ resp.status = StatusOK
    /\ resp.in.search # <<>>
    /\ Len(resp.body.data) > 0
    /\ \E i \in 1..Len(todos) :
          /\ Live(todos[i])
          /\ todos[i].userID # resp.uid
          /\ ILike(todos[i].title, <<"%">> \o resp.in.search \o <<"%">>)

(* The header is "Bearer <token>" and nothing else. *)
IsBearer(hdr) == Len(hdr) = 2 /\ hdr[1] = "Bearer"

(* The header carries what the gate asks for: "Bearer <token>" with a token *)
(* that is validly signed, not expired, and names a live user.              *)
GoodHeader(hdr) ==
    /\ IsBearer(hdr)
    /\ hdr[2].alg \in HMACMethods
    /\ hdr[2].key = JWTSecret
    /\ ~IsNil(hdr[2].exp) /\ now < Deref(hdr[2].exp)
    /\ ~IsNil(hdr[2].user_id)
    /\ Deref(hdr[2].user_id) \in 1..Len(users)
    /\ Live(users[Deref(hdr[2].user_id)])

ProtectedRoutes == TodoRoutes \cup {"auth.me"}

(* C4: a request to a protected route whose Authorization header is absent, *)
(* is not "Bearer <token>" or carries a token that fails validation is      *)
(* answered 401 by the middleware: its handler does not run (no worker      *)
(* takes it up, no handler answers it) and the store is not written;        *)
(* register, login and /health are answered by their handlers whatever the  *)
(* header.                                                                  *)
C4_GateShortCircuits ==
    [][/\ (resp'.route \in ProtectedRoutes /\ ~GoodHeader(resp'.hdr)) =>
              /\ resp'.status = StatusUnauthorized
              /\ resp'.by = "middleware"
              /\ users' = users /\ todos' = todos /\ req' = req
       /\ (resp'.route \in Routes \ ProtectedRoutes) => resp'.by = "handler"
       /\ \A w \in Workers :
              (req'[w].pc # "idle" /\ req'[w].route \in ProtectedRoutes) =>
                  GoodHeader(req'[w].hdr)]_vars

C4_Witness ==
    /\ resp.route = "todos.delete"
    /\ resp.status = StatusUnauthorized
    /\ IsBearer(resp.hdr)
    /\ resp.hdr[2].key = JWTSecret
    /\ now >= Deref(resp.hdr[2].exp)
    /\ \E i \in 1..Len(todos) : Live(todos[i])

(* The subject of the token a header carries. *)
Subject(hdr) == Deref(hdr[2].user_id)

LiveUser(id) == id \in 1..Len(users) /\ Live(users[id])

(* The request answered or taken up in this step arrived in this step. *)
Arrives == \A w \in Workers : req[w].pc = "idle"

(* C5: the identity a protected handler works with is the live user whose   *)
(* id is the subject of the presented token: /auth/me answers with that     *)
(* user, every Todo handler hands that id to the service as the owner id    *)
(* (a created Todo is owned by it), and a request whose token names no live *)
(* user is answered 401.                                                    *)
C5_IdentityIsTokenSubject ==
    [][/\ (resp'.by = "handler" /\ resp'.route \in ProtectedRoutes) =>
              /\ IsBearer(resp'.hdr)
              /\ resp'.uid = Subject(resp'.hdr)
              /\ Arrives => LiveUser(resp'.uid)
              /\ resp'.route = "auth.me" =>
                     /\ resp'.status = StatusOK
                     /\ resp'.body = UserToResponse(users[Subject(resp'.hdr)])
       /\ \A w \in Workers :
              (req[w].pc = "idle" /\ req'[w].pc # "idle"
                   /\ req'[w].route \in ProtectedRoutes) =>
                  /\ IsBearer(req'[w].hdr)
                  /\ req'[w].uid = Subject(req'[w].hdr)
                  /\ LiveUser(req'[w].uid)
       /\ (Len(todos') > Len(todos)) =>
              todos'[Len(todos')].userID = Subject(resp'.hdr)
       /\ (/\ Arrives /\ resp'.route \in ProtectedRoutes
           /\ IsBearer(resp'.hdr) /\ ~IsNil(resp'.hdr[2].user_id)
           /\ ~LiveUser(Subject(resp'.hdr))) =>
              resp'.status = StatusUnauthorized /\ resp'.by = "middleware"]_vars

C5_Witness ==
    /\ resp.route = "todos.create"
    /\ resp.status = StatusCreated
    /\ Subject(resp.hdr) = 2
    /\ todos[Len(todos)].userID = 2
    /\ ~Live(users[1])

(* The live users registered with this email. *)
LiveWithEmail(email) == {i \in 1..Len(users) : Live(users[i]) /\ users[i].email = email}

(* The live users registered with this email and this password. *)
RegisteredPair(email, password) ==
    {i \in LiveWithEmail(email) : users[i].password.digest = password}

(* C6: a login with an unknown email and a login with a known email and a   *)
(* password that does not verify get the same response: 401 with the body   *)
(* {error: "invalid email or password"}.                                    *)
C6_LoginFailuresIndistinguishable ==
    (/\ resp.route = "auth.login"
     /\ ValidLoginRequest(resp.in)
     /\ RegisteredPair(resp.in.email, resp.in.password) = {}) =>
        /\ resp.status = StatusUnauthorized
        /\ resp.body = [error |-> "invalid email or password"]

C6_Witness ==
    /\ resp.route = "auth.login"
    /\ resp.status = StatusUnauthorized
    /\ LiveWithEmail(resp.in.email) # {}
    /\ RegisteredPair(resp.in.email, resp.in.password) = {}
    /\ LiveWithEmail(EmailB) = {}

(* C7: a login with an (email, password) pair that was registered is        *)
(* answered 200 with a token that validation accepts and whose subject is   *)
(* the id of the registered user.                                           *)
C7_LoginAfterRegister ==
    \A i \in 1..Len(users) :
        (resp.route = "auth.login"
             /\ i \in RegisteredPair(resp.in.email, resp.in.password)) =>
            /\ resp.status = StatusOK
            /\ DOMAIN resp.body = {"token", "user"}
            /\ ValidateToken(resp.body.token, now)
            /\ resp.body.token.user_id = Ptr(users[i].id)
            /\ GetUserFromToken(users, resp.body.token, now) = Found(users[i])

C7_Witness ==
    /\ resp.route = "auth.login"
    /\ resp.status = StatusOK
    /\ RegisteredPair(resp.in.email, resp.in.password) = {2}
    /\ resp.body.token.user_id = Ptr(2)

(* C8: a register request whose email belongs to a live user when the       *)
(* service looks it up is answered 400, with the error "user with this      *)
(* email already exists" when the request is valid, and changes no user     *)
(* record; it does not go on to the insert.                                 *)
C8_DuplicateEmailRejected ==
    [][/\ (resp'.route = "auth.register" /\ LiveWithEmail(resp'.in.email) # {}) =>
              /\ users' = users
              /\ Arrives =>
                     /\ resp'.status = StatusBadRequest
                     /\ ValidUserRequest(resp'.in) =>
                            resp'.body = [error |-> "user with this email already exists"]
       /\ \A w \in Workers :
              (req[w].pc = "idle" /\ req'[w].pc = "register.create") =>
                  LiveWithEmail(req'[w].in.email) = {}]_vars

C8_Witness ==
    /\ resp.route = "auth.register"
    /\ resp.status = StatusBadRequest
    /\ resp.body = [error |-> "user with this email already exists"]
    /\ \E i \in LiveWithEmail(resp.in.email) :
           /\ users[i].name # resp.in.name
           /\ users[i].password.digest # resp.in.password
    /\ Len(users) = 2

(* C9: whatever the interleaving of register requests, no two live user     *)
(* records have the same email.                                             *)
C9_OneLiveUserPerEmail ==
    \A i, j \in 1..Len(users) :
        (Live(users[i]) /\ Live(users[j]) /\ users[i].email = users[j].email) => i = j

C9_Witness ==
    /\ resp.route = "auth.register"
    /\ resp.status = StatusInternalServerError
    /\ Cardinality(LiveWithEmail(resp.in.email)) = 1
    /\ \E i \in LiveWithEmail(resp.in.email) : users[i].name # resp.in.name

UserViewFields == {"id", "name", "email", "created_at", "updated_at"}

(* The view shows the row's id, name, email and timestamps and nothing else. *)
IsViewOf(view, id) ==
    /\ DOMAIN view = UserViewFields
    /\ id \in 1..Len(users)
    /\ view = [id |-> users[id].id, name |-> users[id].name,
               email |-> users[id].email, created_at |-> users[id].createdAt,
               updated_at |-> users[id].updatedAt]

PresentsIssuedToken == IsBearer(resp.hdr) /\ resp.hdr[2] \in IssuedTokens

(* C11: an issued token validates at every instant strictly before its exp  *)
(* and at no instant from its exp on, so a request presenting it gets past  *)
(* the middleware before the exp and is answered 401 at the exp itself and  *)
(* later.                                                                   *)
C11_ValidUntilExpiry ==
    /\ \A tok \in IssuedTokens :
           /\ ValidateToken(tok, now) <=> now < Deref(tok.exp)
           /\ Chain("auth.me", <<"Bearer", tok>>).ok <=> now < Deref(tok.exp)
    /\ (resp.route \in ProtectedRoutes /\ PresentsIssuedToken) =>
           /\ now < Deref(resp.hdr[2].exp) => resp.by = "handler"
           /\ now >= Deref(resp.hdr[2].exp) =>
                  /\ resp.by = "middleware"
                  /\ resp.status = StatusUnauthorized

C11_Witness ==
    /\ resp.route = "auth.me"
    /\ PresentsIssuedToken
    /\ now = Deref(resp.hdr[2].exp)
    /\ resp.status = StatusUnauthorized
    /\ resp.body = [error |-> "Invalid token"]

(* The issued tokens that have not expired. *)
UnexpiredTokens == {tok \in IssuedTokens : now < Deref(tok.exp)}

(* C12: whatever has happened since a token was issued (later logins, a     *)
(* logout, Todo operations), while the token has not expired and its user   *)
(* exists every protected route admits a request presenting it, as that     *)
(* user, and no such request is answered by the middleware.                 *)
C12_NoRevocation ==
    /\ \A tok \in UnexpiredTokens, route \in ProtectedRoutes :
           LiveUser(Deref(tok.user_id)) =>
               /\ Chain(route, <<"Bearer", tok>>).ok
               /\ CtxUserID(Chain(route, <<"Bearer", tok>>)) = Deref(tok.user_id)
    /\ (/\ resp.route \in ProtectedRoutes
        /\ IsBearer(resp.hdr) /\ resp.hdr[2] \in UnexpiredTokens
        /\ LiveUser(Subject(resp.hdr))) =>
           resp.by = "handler" /\ resp.status # StatusUnauthorized

C12_Witness ==
    /\ resp.route = "auth.me"
    /\ resp.status = StatusOK
    /\ IsBearer(resp.hdr)
    /\ resp.hdr[2].iat = 0
    /\ now = ExpirationHours - 1
    /\ \E i \in 1..Len(todos) : ~Live(todos[i])

(* C13: a create answered 201 returns, and has stored, a Todo whose status  *)
(* is pending and whose owner is the caller the middleware authenticated,   *)
(* also when the body names a status or an owner of its own.                *)
C13_CreatedPendingAndOwned ==
    (resp.route = "todos.create" /\ resp.status = StatusCreated) =>
        /\ resp.body.status = StatusPending
        /\ resp.body.user_id = Subject(resp.hdr)
        /\ resp.body.id = Len(todos)
        /\ todos[Len(todos)].status = StatusPending
        /\ todos[Len(todos)].userID = Subject(resp.hdr)

C13_Witness ==
    /\ resp.route = "todos.create"
    /\ resp.status = StatusCreated
    /\ "status" \in DOMAIN resp.in /\ resp.in.status = StatusCompleted
    /\ "user_id" \in DOMAIN resp.in /\ resp.in.user_id # Subject(resp.hdr)
    /\ todos[Len(todos)].userID = 2

(* What the owner's get of a Todo returns in the current state. *)
GetReturns(uid, id) == TodoToResponse(Deref(GetUserTodoByID(todos, uid, id).row))

(* A get answered 200 returns the stored row. *)
GetShowsStoredRow ==
    (resp.route = "todos.get" /\ resp.status = StatusOK) =>
        /\ resp.id \in 1..Len(todos)
        /\ resp.body = TodoToResponse(todos[resp.id])

(* C14: after a create answered 201, the owner's get of the returned id     *)
(* finds the Todo and returns the title, description, priority and due date *)
(* of the create request, for as long as no update touches the row.         *)
C14_CreateGetRoundTrip ==
    /\ GetShowsStoredRow
    /\ (resp.route = "todos.create" /\ resp.status = StatusCreated) =>
           /\ GetUserTodoByID(todos, resp.uid, resp.body.id).err = ErrNone
           /\ GetReturns(resp.uid, resp.body.id).title = resp.in.title
           /\ GetReturns(resp.uid, resp.body.id).description = resp.in.description
           /\ GetReturns(resp.uid, resp.body.id).priority = resp.in.priority
           /\ GetReturns(resp.uid, resp.body.id).due_date = resp.in.due_date

(* What does hold of C14's round trip: title, description and priority come *)
(* back as sent, and the due date comes back cut to the microsecond.        *)
C14_RoundTripToTheMicrosecond ==
    /\ GetShowsStoredRow
    /\ (resp.route = "todos.create" /\ resp.status = StatusCreated) =>
           /\ GetUserTodoByID(todos, resp.uid, resp.body.id).err = ErrNone
           /\ GetReturns(resp.uid, resp.body.id).title = resp.in.title
           /\ GetReturns(resp.uid, resp.body.id).description = resp.in.description
           /\ GetReturns(resp.uid, resp.body.id).priority = resp.in.priority
           /\ GetReturns(resp.uid, resp.body.id).due_date = Timestamptz(resp.in.due_date)
           /\ resp.body.due_date = resp.in.due_date

C14_Witness ==
    /\ resp.route = "todos.get"
    /\ resp.status = StatusOK
    /\ resp.body.due_date = DueOnTheMicrosecond
    /\ resp.body.description = DescriptionMilk
    /\ resp.id = 2

(* The other one of the two statuses. *)
OtherStatus(st) == IF st = StatusPending THEN StatusCompleted ELSE StatusPending

(* This step answers a toggle with 200. *)
Toggled == resp'.route = "todos.toggle" /\ resp'.status = StatusOK

(* C15 as stated: a toggle answered 200 flips the status of the owner's     *)
(* Todo and leaves every other field of it, and every other Todo, as it     *)
(* was; toggling twice gives the original status back.                      *)
C15_ToggleChangesStatusOnly ==
    [][Toggled =>
          /\ todos[resp'.id].userID = resp'.uid
          /\ todos' = [todos EXCEPT ![resp'.id] =
                          [@ EXCEPT !.status = OtherStatus(@)]]
          /\ Toggle(Toggle(todos[resp'.id])).status = todos[resp'.id].status]_vars

(* C15, amended: a toggle answered 200 flips the status of the owner's Todo *)
(* between pending and completed, sets its update timestamp to the time of  *)
(* the save, and leaves every other field of it, and every other Todo, as   *)
(* it was; the response shows the new status; toggling twice gives the      *)
(* original status back.                                                    *)
C15_ToggleFlipsStatusAndStamps ==
    [][Toggled =>
          /\ todos[resp'.id].userID = resp'.uid
          /\ todos[resp'.id].status \in Statuses
          /\ todos' = [todos EXCEPT ![resp'.id] =
                          [@ EXCEPT !.status = OtherStatus(@), !.updatedAt = now]]
          /\ resp'.body.status = OtherStatus(todos[resp'.id].status)
          /\ resp'.body.updated_at = now
          /\ Toggle(Toggle(todos[resp'.id])).status = todos[resp'.id].status]_vars

C15_Witness ==
    /\ resp.route = "todos.toggle"
    /\ resp.status = StatusOK
    /\ resp.body.status = StatusPending
    /\ todos[resp.id].status = StatusPending
    /\ todos[resp.id].updatedAt > todos[resp.id].createdAt
    /\ todos[resp.id].dueDate = DueOnTheMicrosecond

(* The response answers a by-id request of the owner of a Todo that was     *)
(* deleted before the request came.                                         *)
OwnDeleted(r, tbl) ==
    /\ r.by = "handler"
    /\ r.route \in ByIDRoutes
    /\ r.id \in 1..Len(tbl)
    /\ tbl[r.id].userID = r.uid
    /\ ~Live(tbl[r.id])

(* C16: a delete answered 204 marks the owner's row deleted and removes no  *)
(* row; from then on the row does not change, the owner's get, update,      *)
(* toggleStatus and delete of that id are answered 404 "todo not found"     *)
(* (an update with an invalid body 400), and no list contains it.           *)
C16_DeletedStaysGone ==
    [][/\ Len(todos') >= Len(todos)
       /\ \A i \in 1..Len(todos) :
              /\ todos'[i].id = i
              /\ ~Live(todos[i]) => todos'[i] = todos[i]
       /\ (resp'.route = "todos.delete" /\ resp'.status = StatusNoContent) =>
              /\ Live(todos[resp'.id])
              /\ todos[resp'.id].userID = resp'.uid
              /\ todos' = [todos EXCEPT ![resp'.id].deletedAt = Ptr(now)]
       /\ OwnDeleted(resp', todos) =>
              IF resp'.route = "todos.update" /\ ~ValidUpdateTodoRequest(resp'.in)
              THEN resp'.status = StatusBadRequest
              ELSE resp'.status = StatusNotFound /\ resp'.body = NotFound
       /\ (resp'.route = "todos.list" /\ resp'.status = StatusOK) =>
              \A k \in 1..Len(resp'.body.data) : Live(todos[resp'.body.data[k].id])]_vars

C16_Witness ==
    /\ OwnDeleted(resp, todos)
    /\ resp.route = "todos.toggle"
    /\ resp.status = StatusNotFound
    /\ Len(todos) = 2

(* A list request was answered with a page. *)
ListAnswered(r) == r.route = "todos.list" /\ r.status = StatusOK

(* The caller's Todos that are not deleted. *)
OwnLive(uid) == {i \in 1..Len(todos) : todos[i].userID = uid /\ Live(todos[i])}

(* The page of a list answered without filters has                          *)
(* min(l, max(0, total - (p-1)*l)) items, its total is the number of the    *)
(* caller's Todos and its total_pages is ceil(total / l).                   *)
PageArithmetic(r) ==
    /\ r.body.total = Cardinality(OwnLive(r.uid))
    /\ Len(r.body.data) =
           Min(r.body.limit, Max(0, r.body.total - (r.body.page - 1) * r.body.limit))
    /\ r.body.total_pages * r.body.limit >= r.body.total
    /\ (r.body.total_pages - 1) * r.body.limit < r.body.total
    /\ r.body.total_pages >= 0

(* C17: for a caller with total matching Todos, page p and limit l, list    *)
(* returns exactly min(l, max(0, total - (p-1)*l)) items and reports total  *)
(* and total_pages = ceil(total / l).                                       *)
C17_PageArithmetic ==
    ListAnswered(resp) => PageArithmetic(resp)

(* C17 where (p-1)*l fits Go's int: the page arithmetic holds. *)
C17_PageArithmeticWithinInt ==
    (ListAnswered(resp) /\ (resp.body.page - 1) * resp.body.limit < 2^(IntBits - 1))
        => PageArithmetic(resp)

C17_Witness ==
    /\ ListAnswered(resp)
    /\ resp.body.page = 2 /\ resp.body.limit = 2
    /\ resp.body.total = 2
    /\ Len(todos) = 2 /\ Cardinality(OwnLive(resp.uid)) = 2
    /\ resp.body.data = <<>>

(* A list request reached the handler with a page below 1 or a limit        *)
(* outside 1..LimitMax; an absent page or limit binds to 0.                 *)
OutOfRange(r) ==
    /\ r.route = "todos.list" /\ r.by = "handler"
    /\ r.in.page < 1 \/ r.in.limit < 1 \/ r.in.limit > LimitMax

(* C18: a list request with a page below 1 (or absent) is served as page 1  *)
(* and one with a limit outside 1..100 (or absent) as limit 10; the         *)
(* response reports the effective page and limit and the request succeeds.  *)
C18_DefaultsServed ==
    OutOfRange(resp) =>
        /\ resp.status = StatusOK
        /\ resp.body.page = IF resp.in.page < 1 THEN 1 ELSE resp.in.page
        /\ resp.body.limit =
               IF resp.in.limit < 1 \/ resp.in.limit > LimitMax THEN DefaultLimit
               ELSE resp.in.limit

(* C18 as served: such a request is refused by the handler's validation     *)
(* with 400 "Validation failed", and a page is served only for a page of at *)
(* least 1 and a limit in 1..100, which the response reports unchanged.     *)
C18_OutOfRangeRefused ==
    /\ OutOfRange(resp) =>
           resp.status = StatusBadRequest /\ resp.body = ErrorBody("Validation failed")
    /\ ListAnswered(resp) =>
           /\ resp.in.page >= 1 /\ resp.in.limit \in 1..LimitMax
           /\ resp.body.page = resp.in.page /\ resp.body.limit = resp.in.limit

C18_Witness ==
    /\ OutOfRange(resp)
    /\ resp.in.page = 0 /\ resp.in.limit = 0
    /\ resp.status = StatusBadRequest
    /\ Len(todos) = 2

(* sub occurs in s, ignoring case. *)
ContainsFold(s, sub) ==
    \E i \in 0..Len(s) :
        /\ i + Len(sub) <= Len(s)
        /\ ToLower(SubSeq(s, i + 1, i + Len(sub))) = ToLower(sub)

(* The caller's live Todos that satisfy every filter of the request. *)
Satisfying(uid, r) ==
    {i \in OwnLive(uid) :
        /\ IsNil(r.status) \/ todos[i].status = Deref(r.status)
        /\ IsNil(r.priority) \/ todos[i].priority = Deref(r.priority)
        /\ \/ ContainsFold(todos[i].title, r.search)
           \/ ContainsFold(todos[i].description, r.search)}

(* The list answered on one page holds exactly the satisfying Todos, newest *)
(* first, and counts them.                                                  *)
ListsTheSatisfying(r) ==
    /\ {r.body.data[k].id : k \in 1..Len(r.body.data)} = Satisfying(r.uid, r.in)
    /\ Len(r.body.data) = Cardinality(Satisfying(r.uid, r.in))
    /\ r.body.total = Cardinality(Satisfying(r.uid, r.in))
    /\ \A k \in 1..Len(r.body.data) :
           r.body.data[k] = TodoToResponse(todos[r.body.data[k].id])
    /\ \A a, b \in 1..Len(r.body.data) :
           a < b => r.body.data[a].created_at >= r.body.data[b].created_at

(* The list was answered on a single page that has room for every Todo. *)
OnOnePage(r) == ListAnswered(r) /\ r.body.page = 1 /\ r.body.limit >= Len(todos)

(* C19: list returns exactly the caller's live Todos whose status equals    *)
(* the status filter, whose priority equals the priority filter and whose   *)
(* title or description contains the search text ignoring case, newest      *)
(* first; an absent filter restricts nothing.                               *)
C19_ListFilters ==
    OnOnePage(resp) => ListsTheSatisfying(resp)

(* C19 for a search text without "%", "_" and backslash. *)
C19_ListFiltersPlainSearch ==
    (/\ OnOnePage(resp)
     /\ \A k \in 1..Len(resp.in.search) : resp.in.search[k] \notin {"%", "_", "\\"})
        => ListsTheSatisfying(resp)

C19_Witness ==
    /\ OnOnePage(resp)
    /\ resp.in.search = SearchM
    /\ IsNil(resp.in.status)
    /\ Len(resp.body.data) = 2
    /\ resp.body.data[1].created_at > resp.body.data[2].created_at
    /\ resp.body.data[1].title = TitleMilk
    /\ resp.body.data[2].description = DescriptionMilk

(* An update was answered with the updated Todo. *)
Updated(r) == r.route = "todos.update" /\ r.status = StatusOK

(* The value a field has after an update: the one provided, or the previous *)
(* one when the request does not provide the field.                         *)
Provided(p, previous) == IF IsNil(p) THEN previous ELSE Deref(p)

(* The update's effect on title, description, priority and status, and on   *)
(* the rest of the table.                                                   *)
UpdateFrame(r, old, new) ==
    /\ new[r.id].title = Provided(r.in.title, old[r.id].title)
    /\ new[r.id].description = Provided(r.in.description, old[r.id].description)
    /\ new[r.id].priority = Provided(r.in.priority, old[r.id].priority)
    /\ new[r.id].status = Provided(r.in.status, old[r.id].status)
    /\ Len(new) = Len(old)
    /\ \A i \in 1..Len(old) : i # r.id => new[i] = old[i]

(* The update is of a live Todo of the caller. *)
OwnerUpdates(r) ==
    /\ r.id \in 1..Len(todos)
    /\ Live(todos[r.id])
    /\ todos[r.id].userID = r.uid

(* C20: a successful update by the owner sets exactly the fields present in *)
(* the request (title, description, priority, status, due date) to the      *)
(* provided values and leaves every field not present at its previous       *)
(* value; an update with no fields present changes none of them.            *)
C20_PartialUpdate ==
    [][Updated(resp') =>
          /\ OwnerUpdates(resp')
          /\ UpdateFrame(resp', todos, todos')
          /\ todos'[resp'.id].dueDate =
                 IF IsNil(resp'.in.due_date) THEN todos[resp'.id].dueDate
                 ELSE resp'.in.due_date]_vars

(* C20 with the due date as stored: a provided due date is set to the       *)
(* microsecond.                                                             *)
C20_PartialUpdateToTheMicrosecond ==
    [][Updated(resp') =>
          /\ OwnerUpdates(resp')
          /\ UpdateFrame(resp', todos, todos')
          /\ todos'[resp'.id].dueDate =
                 IF IsNil(resp'.in.due_date) THEN todos[resp'.id].dueDate
                 ELSE Timestamptz(resp'.in.due_date)]_vars

C20_Witness ==
    /\ Updated(resp)
    /\ resp.in = UpdateTodoRequest(Nil, Nil, Ptr(PriorityLow), Ptr(StatusCompleted), Nil)
    /\ todos[resp.id].title = TitleBread
    /\ todos[resp.id].description = DescriptionNone
    /\ todos[resp.id].dueDate = DueLater
    /\ todos[resp.id].priority = PriorityLow
    /\ todos[resp.id].status = StatusCompleted

(* The text breaks the bounds on its length. *)
OutsideLength(text, least, most) == Len(text) < least \/ Len(text) > most

(* The body of a create, update, register or login request that reached its *)
(* handler violates a field constraint.                                     *)
ViolatesConstraint(r) ==
    /\ r.by = "handler"
    /\ \/ /\ r.route = "todos.create"
          /\ \/ OutsideLength(r.in.title, 1, TitleMax)
             \/ Len(r.in.description) > DescriptionMax
             \/ r.in.priority \notin {PriorityLow, PriorityMedium, PriorityHigh}
       \/ /\ r.route = "todos.update"
          /\ \/ ~IsNil(r.in.title) /\ OutsideLength(Deref(r.in.title), 1, TitleMax)
             \/ ~IsNil(r.in.description) /\ Len(Deref(r.in.description)) > DescriptionMax
             \/ ~IsNil(r.in.priority)
                    /\ Deref(r.in.priority) \notin {PriorityLow, PriorityMedium, PriorityHigh}
             \/ ~IsNil(r.in.status)
                    /\ Deref(r.in.status) \notin {StatusPending, StatusCompleted}
       \/ /\ r.route = "auth.register"
          /\ ~IsEmail(r.in.email) \/ Len(r.in.password) < PasswordMin
       \/ /\ r.route = "auth.login"
          /\ ~IsEmail(r.in.email)

(* C21: a create, update, register or login request whose body violates a   *)
(* field constraint is answered 400, and serving it neither writes the      *)
(* store nor starts the read that precedes a write.                         *)
C21_ValidationBeforePersistence ==
    [][ViolatesConstraint(resp') =>
          /\ resp'.status = StatusBadRequest
          /\ resp'.body = ErrorBody("Validation failed")
          /\ users' = users /\ todos' = todos
          /\ req' = req /\ \A w \in Workers : req[w].pc = "idle"]_vars

C21_Witness ==
    /\ ViolatesConstraint(resp)
    /\ resp.route = "todos.update"
    /\ resp.in.status = Ptr(StatusDone)
    /\ resp.id \in 1..Len(todos)
    /\ todos[resp.id].userID = resp.uid
    /\ Len(users) = 2

(* The stored Todo is within the constraints of its fields. *)
WellFormed(todo) ==
    /\ Len(todo.title) >= 1 /\ Len(todo.title) <= TitleMax
    /\ Len(todo.description) <= DescriptionMax
    /\ todo.priority \in {PriorityLow, PriorityMedium, PriorityHigh}
    /\ todo.status \in {StatusPending, StatusCompleted}

(* C22: after any sequence of create, update and toggleStatus requests      *)
(* every live Todo has a title of 1 to 200 characters, a description of at  *)
(* most 1000, a priority in {low, medium, high} and a status in {pending,   *)
(* completed}.                                                              *)
C22_LiveTodosWellFormed ==
    \A i \in 1..Len(todos) : Live(todos[i]) => WellFormed(todos[i])

C22_Witness ==
    /\ Len(todos) = 2
    /\ todos[1].title = TitleBread
    /\ todos[2].status = StatusCompleted /\ todos[2].title = TitleMilk
    /\ resp.route = "todos.create"
    /\ resp.status = StatusBadRequest
    /\ resp.in.title = TitleEmpty

(* A create request that reached its handler gives a valid title and no     *)
(* priority.                                                                *)
NoPriority(r) ==
    /\ r.route = "todos.create" /\ r.by = "handler"
    /\ "priority" \notin DOMAIN r.in
    /\ Len(r.in.title) >= 1 /\ Len(r.in.title) <= TitleMax
    /\ Len(r.in.description) <= DescriptionMax

(* C23: a create request that gives a valid title and no priority succeeds  *)
(* and yields a Todo whose priority is medium.                              *)
C23_PriorityOptional ==
    NoPriority(resp) =>
        /\ resp.status = StatusCreated
        /\ resp.body.priority = PriorityMedium
        /\ todos[resp.body.id].priority = PriorityMedium

(* C23 as served: such a request is refused with 400 "Validation failed"    *)
(* and stores nothing.                                                      *)
C23_PriorityRequired ==
    [][NoPriority(resp') =>
          /\ resp'.status = StatusBadRequest
          /\ resp'.body = ErrorBody("Validation failed")
          /\ todos' = todos]_vars

C23_Witness ==
    /\ NoPriority(resp)
    /\ resp.status = StatusBadRequest
    /\ Len(todos) = 1

(* The middleware looked the token's user up: the request is for a          *)
(* protected route and carries "Bearer <token>" with a token that passes    *)
(* ValidateToken and names a user.                                          *)
LooksUserUp(r) ==
    /\ r.route \in ProtectedRoutes
    /\ IsBearer(r.hdr)
    /\ ValidateToken(r.hdr[2], now)
    /\ ~IsNil(r.hdr[2].user_id)

(* The step that wrote response r met a failure of the store: the database  *)
(* was down when the middleware looked the user up, when register or login  *)
(* looked the email up, or when a handler sent its second statement; or a   *)
(* by-id query was given an id that is no uuid.                             *)
MetStoreFailure(r) ==
    \/ /\ StoreDown
       /\ \/ r.by = "middleware" /\ LooksUserUp(r)
          \/ /\ r.by = "handler" /\ r.route = "auth.register"
             /\ ValidUserRequest(r.in)
          \/ /\ r.by = "handler" /\ r.route = "auth.login"
             /\ ValidLoginRequest(r.in)
          \/ /\ r.by = "handler"
             /\ \E w \in Workers : req[w].pc # "idle" /\ req'[w].pc = "idle"
    \/ /\ r.by = "handler"
       /\ r.route \in ByIDRoutes
       /\ r.id = MalformedID
       /\ r.route = "todos.update" => ValidUpdateTodoRequest(r.in)

(* C24: every store failure met while serving a request is answered with    *)
(* 500 carrying only "Internal server error", never as another class of     *)
(* error.                                                                   *)
C24_StoreFailureIs500 ==
    [][MetStoreFailure(resp') =>
          resp'.status = StatusInternalServerError /\ resp'.body = InternalError]_vars

(* C24 as served: a store failure met by a handler is answered 500          *)
(* "Internal server error"; one met by the authentication middleware is     *)
(* answered 401 "Invalid token".                                            *)
C24_StoreFailureIs500PastTheGate ==
    [][MetStoreFailure(resp') =>
          IF resp'.by = "middleware"
          THEN /\ resp'.status = StatusUnauthorized
               /\ resp'.body = ErrorBody("Invalid token")
          ELSE /\ resp'.status = StatusInternalServerError
               /\ resp'.body = InternalError]_vars

C24_Witness ==
    /\ StoreDown
    /\ resp.by = "middleware"
    /\ resp.route = "todos.get"
    /\ LooksUserUp(resp)
    /\ LiveUser(Subject(resp.hdr))
    /\ resp.status = StatusUnauthorized
    /\ Len(todos) = 1

(* The request passed the gate of a protected route with a bearer token. *)
PassedTheGate(r) ==
    /\ r.by = "handler"
    /\ r.route \in ProtectedRoutes
    /\ IsBearer(r.hdr)

(* C25: validate accepts a token only if its signing algorithm is HS256,    *)
(* the one issue signs with, and its signature verifies under the           *)
(* configured secret; a token naming "none" or any other algorithm is       *)
(* rejected.                                                                *)
C25_OnlyHS256Accepted ==
    PassedTheGate(resp) =>
        resp.hdr[2].alg = "HS256" /\ resp.hdr[2].key = JWTSecret

(* C25 as served: validate accepts a token only if its algorithm is one of  *)
(* HS256, HS384 and HS512 and its signature verifies under the secret.      *)
C25_OnlyHMACAccepted ==
    PassedTheGate(resp) =>
        resp.hdr[2].alg \in {"HS256", "HS384", "HS512"} /\ resp.hdr[2].key = JWTSecret

C25_Witness ==
    /\ PassedTheGate(resp)
    /\ resp.hdr[2] = TokenOfMethod("HS384", JWTSecret)
    /\ resp.route = "todos.get"
    /\ resp.status = StatusOK
    /\ Len(todos) = 2

(* The fields of the stored Todo that the request does not provide are the  *)
(* same in new as in old.                                                   *)
UnprovidedAsIn(r, old, new) ==
    /\ IsNil(r.in.title) => new.title = old.title
    /\ IsNil(r.in.description) => new.description = old.description
    /\ IsNil(r.in.priority) => new.priority = old.priority
    /\ IsNil(r.in.status) => new.status = old.status
    /\ IsNil(r.in.due_date) => new.dueDate = old.dueDate

(* C26: an update that does not provide a field never changes the stored    *)
(* value of that field, also when another update of the same Todo runs      *)
(* concurrently: a title-only and a description-only update that both       *)
(* succeed leave the first's title and the second's description.            *)
C26_ConcurrentUpdatesKeepUnprovided ==
    [][Updated(resp') => UnprovidedAsIn(resp', todos[resp'.id], todos'[resp'.id])]_vars

(* C26 as served: a successful update writes, for every field it does not   *)
(* provide, the value the request read when it loaded the Todo.             *)
C26_UpdateWritesWhatItRead ==
    [][Updated(resp') =>
          \E w \in Workers :
              /\ req[w].pc = "update.save" /\ req'[w].pc = "idle"
              /\ req[w].in = resp'.in /\ req[w].id = resp'.id
              /\ UnprovidedAsIn(resp', req[w].loaded, todos'[resp'.id])]_vars

C26_Witness ==
    /\ Updated(resp)
    /\ resp.in = UpdateTitleOnly
    /\ todos[1].title = TitleBread
    /\ \E w \in Workers :
           /\ req[w].pc = "update.save"
           /\ req[w].in = UpdateDescriptionOnly
           /\ req[w].loaded.title = TitleMilk

(* Worker w is about to save Todo i, which it read while the Todo was live. *)
SavesStale(w, i) ==
    /\ req[w].pc \in {"update.save", "toggle.save"}
    /\ req[w].id = i
    /\ Live(req[w].loaded)

(* C27: once a delete of a Todo has returned success the Todo stays gone    *)
(* under every interleaving: an update or toggleStatus that read the row    *)
(* before the delete and writes it after does not make it visible again.    *)
C27_DeleteWinsEveryRace ==
    [][\A i \in 1..Len(todos) : ~Live(todos[i]) => ~Live(todos'[i])]_vars

(* C27 as served: a deleted Todo becomes live again exactly by the save of  *)
(* an update or toggleStatus that read it before the delete, which is       *)
(* answered 200; a get answers 200 only for a live Todo.                    *)
C27_StaleSaveRevives ==
    [][/\ \A i \in 1..Len(todos) :
              (~Live(todos[i]) /\ Live(todos'[i])) =>
                  /\ \E w \in Workers : SavesStale(w, i) /\ req'[w].pc = "idle"
                  /\ resp'.status = StatusOK /\ resp'.id = i
       /\ \A w \in Workers :
              (SavesStale(w, req[w].id) /\ req'[w].pc = "idle" /\ ~StoreDown) =>
                  Live(todos'[req[w].id])
       /\ (resp'.route = "todos.get" /\ resp'.status = StatusOK) =>
              Live(todos[resp'.id])]_vars

C27_Witness ==
    /\ resp.route = "todos.delete" /\ resp.status = StatusNoContent
    /\ resp.id = 1
    /\ ~Live(todos[1])
    /\ \E w \in Workers : SavesStale(w, 1) /\ req[w].pc = "toggle.save"

(* A register request with a valid body was answered. *)
RegisterAnswered(r) ==
    r.route = "auth.register" /\ r.by = "handler" /\ ValidUserRequest(r.in)

DuplicateEmail == ErrorBody("user with this email already exists")

(* C28: of two register requests for the same unused email that run         *)
(* concurrently exactly one succeeds with 201 and the other fails with 400  *)
(* "user with this email already exists".                                   *)
C28_RaceLoserIsDuplicateEmail ==
    [][RegisterAnswered(resp') =>
          IF users' # users
          THEN /\ resp'.status = StatusCreated
               /\ ~\E i \in 1..Len(users) : users[i].email = resp'.in.email
          ELSE /\ resp'.status = StatusBadRequest
               /\ resp'.body = DuplicateEmail]_vars

(* C28 as served: exactly one succeeds with 201; the other fails with 400   *)
(* when its lookup saw the winner's row, and with 500 "Internal server      *)
(* error" when it looked the email up before the winner's insert.           *)
C28_RaceLoserIs400Or500 ==
    [][RegisterAnswered(resp') =>
          IF users' # users
          THEN /\ resp'.status = StatusCreated
               /\ ~\E i \in 1..Len(users) : users[i].email = resp'.in.email
          ELSE /\ \E i \in 1..Len(users) : users[i].email = resp'.in.email
               /\ IF \A w \in Workers : req[w] = req'[w]
                  THEN resp'.status = StatusBadRequest /\ resp'.body = DuplicateEmail
                  ELSE /\ resp'.status = StatusInternalServerError
                       /\ resp'.body = InternalError]_vars

C28_Witness ==
    /\ RegisterAnswered(resp)
    /\ resp.status = StatusInternalServerError
    /\ resp.in = UserRequest(NameB, EmailA, PasswordB)
    /\ Len(users) = 1
    /\ users[1].email = EmailA /\ users[1].name = NameA
    /\ \A w \in Workers : req[w].pc = "idle"

(* A toggleStatus request was answered with the toggled Todo. *)
ToggleAnswered(r) == r.route = "todos.toggle" /\ r.status = StatusOK

(* C29: every toggleStatus request that returns success flips the stored    *)
(* status exactly once, also under concurrency, so that after n successful  *)
(* requests the stored status differs from the initial one exactly when n   *)
(* is odd.                                                                  *)
C29_EveryToggleFlips ==
    [][ToggleAnswered(resp') =>
          todos'[resp'.id].status = OtherStatus(todos[resp'.id].status)]_vars

(* C29 as served: a successful toggleStatus stores, and returns, the        *)
(* opposite of the status it read.                                          *)
C29_ToggleFlipsWhatItRead ==
    [][ToggleAnswered(resp') =>
          \E w \in Workers :
              /\ req[w].pc = "toggle.save" /\ req'[w].pc = "idle"
              /\ req[w].id = resp'.id
              /\ todos'[resp'.id].status = OtherStatus(req[w].loaded.status)
              /\ resp'.body.status = OtherStatus(req[w].loaded.status)]_vars

C29_Witness ==
    /\ ToggleAnswered(resp)
    /\ resp.id = 1
    /\ todos[1].status = StatusCompleted
    /\ \E w \in Workers :
           /\ req[w].pc = "toggle.save" /\ req[w].id = 1
           /\ req[w].loaded.status = StatusPending

(* The items a page of these coordinates has when total rows match. *)
PageItems(total, page, limit) == Min(limit, Max(0, total - (page - 1) * limit))

(* C30: every list response is internally consistent while the owner's      *)
(* creates and deletes are served at once: the returned items do not exceed *)
(* the reported total, and total and items describe the same store state,   *)
(* items = min(limit, max(0, total - (page-1)*limit)).                      *)
C30_ListConsistent ==
    ListAnswered(resp) =>
        /\ Len(resp.body.data) <= resp.body.total
        /\ Len(resp.body.data) =
               PageItems(resp.body.total, resp.body.page, resp.body.limit)

(* C30 as served: the total is the number of the caller's Todos when        *)
(* query.Count ran, and the items are the page of the caller's Todos when   *)
(* Find ran.                                                                *)
C30_TotalAtCountItemsAtFind ==
    [][/\ \A w \in Workers :
             (req[w].pc = "idle" /\ req'[w].pc = "list.find") =>
                 req'[w].loaded = Cardinality(OwnLive(req'[w].uid))
       /\ ListAnswered(resp') =>
             \E w \in Workers :
                 /\ req[w].pc = "list.find" /\ req'[w].pc = "idle"
                 /\ resp'.body.total = req[w].loaded
                 /\ Len(resp'.body.data) =
                        PageItems(Cardinality(OwnLive(resp'.uid)),
                                  resp'.body.page, resp'.body.limit)
                 /\ \A k \in 1..Len(resp'.body.data) :
                        resp'.body.data[k].id \in OwnLive(resp'.uid)]_vars

C30_Witness ==
    /\ ListAnswered(resp)
    /\ resp.body.page = 1 /\ resp.body.limit = 1
    /\ resp.body.total = 0
    /\ Len(resp.body.data) = 1
    /\ Cardinality(OwnLive(resp.uid)) = 1

====
